---- MODULE Spec2Model ----
(***************************************************************************)
(* A model of the datagen generation engine: the dependency-graph builder  *)
(* (core/dag.py), the level-by-level executor (core/executor.py), the      *)
(* lookup resolver (core/generators/registry.py), the seed manager         *)
(* (core/seed.py) and the fanout sampler (core/generators/primitives.py).  *)
(***************************************************************************)
EXTENDS Integers, Sequences, FiniteSets, TLC

VARIABLES
    dataset,        \* the validated Dataset handed to build_dag / DatasetExecutor
    master_seed,    \* SeedManager.master_seed
    output_dir,     \* whether execute() was given an output directory
    pc,             \* position of the program
    dag,            \* DatasetExecutor.dag: what build_dag returned, or what it raised
    level_idx,      \* execute(): index of the level being generated
    node_idx,       \* execute(): index of the node within the level
    phase,          \* per node: where its generate_node call stands
    data,           \* per node: the column dict `data` of its generate_* call
    generated_data, \* DatasetExecutor.generated_data
    data_cache,     \* LookupResolver._data_cache
    faker_state,    \* the module-level FakerAdapter's Faker instance (semantic.py:136)
    files,          \* files written by write_output
    run,            \* which call of generate_dataset this is
    first_result,   \* the tables the first call returned
    hist,           \* history: what was stored when, per node
    call            \* a single function call under study: its arguments and its outcome

vars == <<dataset, master_seed, output_dir, pc, dag, level_idx, node_idx, phase, data,
          generated_data, data_cache, faker_state, files, run, first_result, hist, call>>

(***************************************************************************)
(* Schema: node ids, references between nodes, the explicit dag.           *)
(***************************************************************************)

\* Node ids of the modelled datasets (Dataset.nodes[*].id, unique by schema.py:502).
Ids == {"a", "b", "c"}

\* Python's ordering of the node ids, used by sorted(level).
Rank(n) == CASE n = "a" -> 1 [] n = "b" -> 2 [] n = "c" -> 3

\* Most references (parents, lookups, choices_ref) a modelled dataset declares.
MaxDagRefs == 2

\* A declared reference of node `node`: a parent, a lookup column's source
\* table, or a choice column's choices_ref table.
DagSlots == {"parent", "lookup", "choices_ref"}

Ref(slot, node, target) == [slot |-> slot, node |-> node, target |-> target]

DagRefs == {Ref(s, n, t) : s \in DagSlots, n \in Ids, t \in Ids}

RECURSIVE KSubsets(_, _)
\* The subsets of S with at most k elements.
KSubsets(S, k) ==
    IF k = 0 THEN {{}}
    ELSE LET prev == KSubsets(S, k - 1)
         IN  prev \cup {p \cup {f} : p \in prev, f \in S}

RECURSIVE SortedSeq(_)
\* sorted(S) for a set of node ids.
SortedSeq(S) ==
    IF S = {} THEN <<>>
    ELSE LET m == CHOOSE x \in S : \A y \in S : Rank(x) <= Rank(y)
         IN  <<m>> \o SortedSeq(S \ {m})

\* Node.parents, in declaration order (here: sorted by id).
Parents(ds, n) == SortedSeq({r.target : r \in {q \in ds.refs : q.slot = "parent" /\ q.node = n}})

\* The tables named by the lookup columns of node n ("from": "table.column").
LookupTables(ds, n) == {r.target : r \in {q \in ds.refs : q.slot = "lookup" /\ q.node = n}}

\* The tables named by the choices_ref of the choice columns of node n.
ChoicesRefTables(ds, n) == {r.target : r \in {q \in ds.refs : q.slot = "choices_ref" /\ q.node = n}}

Range(s) == {s[i] : i \in DOMAIN s}

RECURSIVE Flatten(_)
\* The node ids of a list of levels, in iteration order.
Flatten(levels) ==
    IF levels = <<>> THEN <<>> ELSE Head(levels) \o Flatten(Tail(levels))

(***************************************************************************)
(* core/dag.py                                                             *)
(***************************************************************************)

\* DAGBuilder._find_dependencies without the self-reference guard.
FindDependenciesWithSelf(ds, n) ==
    Range(Parents(ds, n)) \cup LookupTables(ds, n) \cup ChoicesRefTables(ds, n)

\* DAGBuilder._find_dependencies: parents, lookup tables and choices_ref
\* tables, the node's own id excluded for the two column-level kinds.
FindDependencies(ds, n) ==
    Range(Parents(ds, n))
        \cup (LookupTables(ds, n) \ {n})
        \cup (ChoicesRefTables(ds, n) \ {n})

\* DAGBuilder._infer_dependencies: the edges dep -> node of self.graph.
InferDependencies(ds) == {e \in Ids \X Ids : e[1] \in FindDependencies(ds, e[2])}

\* Sequences of distinct node ids of length 1..|Ids|.
DistinctSeqs ==
    UNION {{s \in [1..k -> Ids] : \A i, j \in 1..k : i # j => s[i] # s[j]} : k \in 1..Cardinality(Ids)}

\* nx.simple_cycles: every elementary cycle of the graph, each listed once
\* (here rotated to start at its smallest node).
SimpleCycles(edges) ==
    {s \in DistinctSeqs :
        /\ \A i \in 1..Len(s) : Rank(s[1]) <= Rank(s[i])
        /\ \A i \in 1..(Len(s) - 1) : <<s[i], s[i + 1]>> \in edges
        /\ <<s[Len(s)], s[1]>> \in edges}

\* DAGBuilder._check_cycles skipping the raise.
CheckCyclesNever(edges) == {}

\* DAGBuilder._check_cycles: the cycles it raises with ({} = no raise).
CheckCycles(edges) == SimpleCycles(edges)

RECURSIVE Generations(_, _, _)
\* nx.topological_generations: a node joins the generation after the one
\* holding its last predecessor; generation 0 holds the nodes without
\* predecessors.
Generations(edges, placed, remaining) ==
    IF remaining = {} THEN <<>>
    ELSE LET level == {n \in remaining : \A e \in edges : e[2] = n => e[1] \in placed}
         IN  IF level = {} THEN <<>>
             ELSE <<level>> \o Generations(edges, placed \cup level, remaining \ level)

\* DAGBuilder._topological_generations placing every node in generation 0.
TopologicalGenerationsFlat(edges) == <<SortedSeq(Ids)>>

\* DAGBuilder._topological_generations: [sorted(level) for level in generations].
TopologicalGenerations(edges) ==
    LET gens == Generations(edges, {}, Ids)
    IN  [i \in DOMAIN gens |-> SortedSeq(gens[i])]

NotBuilt == [ok |-> FALSE, levels |-> <<>>, error |-> "not_built", cycles |-> {}]

\* The orders of the node ids.
Perms == {s \in [1..Cardinality(Ids) -> Ids] : \A i, j \in DOMAIN s : i # j => s[i] # s[j]}

Ok(levels) == [ok |-> TRUE, levels |-> levels, error |-> "none", cycles |-> {}]
Raise(error, cycles) == [ok |-> FALSE, levels |-> <<>>, error |-> error, cycles |-> cycles]

RECURSIVE ValidateFromNoDup(_, _, _, _)
\* _validate_explicit_dag without the "appears multiple times" check.
ValidateFromNoDup(ds, flat, i, seen) ==
    IF i > Len(flat) THEN "none"
    ELSE IF \E p \in Range(Parents(ds, flat[i])) : p \notin seen \cup {flat[i]} THEN "parent_later"
    ELSE ValidateFromNoDup(ds, flat, i + 1, seen \cup {flat[i]})

RECURSIVE ValidateFrom(_, _, _, _)
\* The loop of DAGBuilder._validate_explicit_dag over the node ids in
\* iteration order: "none" or the first error raised. The node is added to
\* `seen` before its parents are looked up in it.
ValidateFrom(ds, flat, i, seen) ==
    IF i > Len(flat) THEN "none"
    ELSE IF flat[i] \in seen THEN "multiple_times"
    ELSE IF \E p \in Range(Parents(ds, flat[i])) : p \notin seen \cup {flat[i]} THEN "parent_later"
    ELSE ValidateFrom(ds, flat, i + 1, seen \cup {flat[i]})

\* DAGBuilder._validate_explicit_dag.
ValidateExplicitDag(ds) == ValidateFrom(ds, Flatten(ds.dag), 1, {})

\* DAGBuilder.build / build_dag.
BuildDag(ds) ==
    IF ds.dag # <<>>
    THEN LET err == ValidateExplicitDag(ds)
         IN  IF err # "none" THEN Raise(err, {}) ELSE Ok(ds.dag)
    ELSE LET edges == InferDependencies(ds)
             cycles == CheckCycles(edges)
         IN  IF cycles # {} THEN Raise("circular", cycles)
             ELSE Ok(TopologicalGenerations(edges))


(***************************************************************************)
(* core/seed.py                                                            *)
(***************************************************************************)

\* str(x).encode("utf-8") for the strings that occur as scope parts.
Chars(x) ==
    CASE x = "a" -> <<97>>
      [] x = "b" -> <<98>>
      [] x = "c" -> <<99>>
      [] x = "id" -> <<105, 100>>
      [] x = "ts" -> <<116, 115>>
      [] x = "val" -> <<118, 97, 108>>
      [] x = "name" -> <<110, 97, 109, 101>>
      [] x = "lk_a" -> <<108, 107, 95, 97>>
      [] x = "lk_b" -> <<108, 107, 95, 98>>
      [] x = "lk_c" -> <<108, 107, 95, 99>>
      [] x = "ch_a" -> <<99, 104, 95, 97>>
      [] x = "ch_b" -> <<99, 104, 95, 98>>
      [] x = "ch_c" -> <<99, 104, 95, 99>>

RECURSIVE Digits(_)
\* str(i) for a non-negative int, as character codes.
Digits(i) == IF i < 10 THEN <<48 + i>> ELSE Digits(i \div 10) \o <<48 + (i % 10)>>

RECURSIVE Join(_)
\* "|".join(str(p) for p in parts), the parts already converted by str().
Join(parts) ==
    IF Len(parts) = 0 THEN <<>>
    ELSE IF Len(parts) = 1 THEN parts[1]
    ELSE parts[1] \o <<124>> \o Join(Tail(parts))

RECURSIVE Mix(_, _, _)
Mix(chars, h, k) ==
    IF chars = <<>> THEN h ELSE Mix(Tail(chars), (h * (29 + 2 * k) + Head(chars)) % 256, k)

\* hashlib.sha256(combined).digest()[:4]. SHA-256 is not computed: a
\* polynomial hash of the same input stands for its four leading bytes.
Sha256Lead4(chars) == [k \in 1..4 |-> Mix(chars, k, k)]

\* derive_seed(*parts): the four leading digest bytes; int.from_bytes(..., "big")
\* of them is below 2**32, so the final % 2**32 leaves it unchanged.
DeriveSeed(parts) == Sha256Lead4(Join(parts))

\* SeedManager.node_seed / node_rng.
NodeSeed(ms, n) == DeriveSeed(<<Digits(ms), Chars(n)>>)

\* SeedManager.column_seed dropping the column name from the scope.
ColumnSeedNoColumn(ms, n, col) == DeriveSeed(<<Digits(ms), Chars(n)>>)

\* SeedManager.column_seed / column_rng.
ColumnSeed(ms, n, col) == DeriveSeed(<<Digits(ms), Chars(n), Chars(col)>>)

\* The pos-th draw below `bound` of np.random.default_rng(seed): a fixed
\* function of the seed and the position in the stream.
Draw(seed, pos, bound) ==
    ((seed[1] + 3 * seed[2] + 5 * seed[3] + 7 * seed[4] + 11 * pos) % 97) % bound

(***************************************************************************)
(* Tables. A table is held by its stage, its row count and, per column, a  *)
(* number standing for the column's content.                               *)
(***************************************************************************)

\* Node.rows of the modelled entities.
EntityRows == 2
\* len(enum_list.values) of the modelled vocab nodes.
VocabRows == 2
\* Range of the numbers standing for sampled column contents.
ValueRange == 5
\* The fanout of the modelled facts is uniform on 0..MaxFanout.
MaxFanout == 2

NoTable == [stage |-> "none", rows |-> 0, cols |-> <<>>]

Table(stage, rows, cols) == [stage |-> stage, rows |-> rows, cols |-> cols]

HasColumn(t, name) == \E i \in DOMAIN t.cols : t.cols[i].name = name

ColVal(t, name) == LET i == CHOOSE j \in DOMAIN t.cols : t.cols[j].name = name IN t.cols[i].v

\* Column-level effect modifiers of node n's "val" column: their effect tables.
EffectTables(ds, n) == {r.target : r \in {q \in ds.refs : q.slot = "effect" /\ q.node = n}}

\* Table-level (Node.modifiers) effect modifiers of node n: their effect tables.
TableEffectTables(ds, n) == {r.target : r \in {q \in ds.refs : q.slot = "table_effect" /\ q.node = n}}

\* Node.kind: facts are the nodes with parents (schema.py:309-336).
Kind(ds, n) ==
    IF Parents(ds, n) # <<>> THEN "fact"
    ELSE IF \E q \in ds.refs : q.slot = "vocab" /\ q.node = n THEN "vocab"
    ELSE "entity"

LkName(t) == CASE t = "a" -> "lk_a" [] t = "b" -> "lk_b" [] t = "c" -> "lk_c"
ChName(t) == CASE t = "a" -> "ch_a" [] t = "b" -> "ch_b" [] t = "c" -> "ch_c"

\* Node.columns of node n, in declaration order: the key, a timestamp, one
\* lookup column per lookup reference, one choice column per choices_ref, a
\* sampled value carrying the column-level effect modifiers, and a faker column.
Columns(ds, n) ==
    LET lk == SortedSeq(LookupTables(ds, n))
        ch == SortedSeq(ChoicesRefTables(ds, n))
    IN  <<[name |-> "id", gen |-> IF Kind(ds, n) = "vocab" THEN "enum_list" ELSE "sequence",
           from |-> n, effects |-> <<>>],
          [name |-> "ts", gen |-> "datetime_series", from |-> n, effects |-> <<>>]>>
        \o [i \in DOMAIN lk |-> [name |-> LkName(lk[i]), gen |-> "lookup", from |-> lk[i], effects |-> <<>>]]
        \o [i \in DOMAIN ch |-> [name |-> ChName(ch[i]), gen |-> "choices_ref", from |-> ch[i], effects |-> <<>>]]
        \o <<[name |-> "val", gen |-> "distribution", from |-> n,
              effects |-> SortedSeq(EffectTables(ds, n))],
             [name |-> "name", gen |-> "faker", from |-> n, effects |-> <<>>]>>

(***************************************************************************)
(* core/generators: the registry's dispatch, the lookup resolver, faker.   *)
(***************************************************************************)

Val(v, fk) == [err |-> FALSE, v |-> v, fk |-> fk]
Err(fk) == [err |-> TRUE, v |-> 0, fk |-> fk]

\* LookupResolver.lookup without a join: raise when the table is not in the
\* cache, else values[rng.choice(len(values), size)] (rng.choice raises on an
\* empty source when size > 0).
Lookup(cache, t, size, seed, fk) ==
    IF cache[t] = NoTable \/ ~HasColumn(cache[t], "id") THEN Err(fk)
    ELSE IF cache[t].rows = 0 /\ size > 0 THEN Err(fk)
    ELSE Val(10 * ColVal(cache[t], "id") + cache[t].rows + Draw(seed, 0, ValueRange), fk)

\* FakerAdapter.generate without the seed_instance call: the values continue
\* the shared instance's stream.
FakerGenerateNoSeed(seed, size, fk) ==
    Val(fk.seed + fk.pos, [seed |-> fk.seed, pos |-> fk.pos + size])

\* FakerAdapter.generate: seed the shared instance from the column's rng,
\* then draw `size` values from it.
FakerGenerate(seed, size, fk) ==
    LET s == Draw(seed, 0, ValueRange)
    IN  Val(s, [seed |-> s, pos |-> size])

\* GeneratorRegistry.generate for one column.
RegistryGenerate(col, size, seed, cache, fk) ==
    CASE col.gen = "sequence" -> Val(1, fk)
      [] col.gen = "enum_list" -> Val(1, fk)
      [] col.gen = "datetime_series" -> Val(Draw(seed, 0, ValueRange), fk)
      [] col.gen = "distribution" -> Val(Draw(seed, 0, ValueRange), fk)
      [] col.gen = "choices_ref" -> Err(fk)
      [] col.gen = "lookup" -> Lookup(cache, col.from, size, seed, fk)
      [] col.gen = "faker" -> FakerGenerate(seed, size, fk)

(***************************************************************************)
(* core/modifiers.py and the executor's effect context.                    *)
(***************************************************************************)

\* DatasetExecutor._build_context_with_effects: the effect tables among
\* `effects` that are in generated_data get an _effect_ column.
BuildContextWithEffects(effects, gd) ==
    {t \in Range(effects) : gd[t] # NoTable}

\* modify_effect: the value combined with the effect table's content.
ModifyEffect(v, t) == 100 * v + 10 * (1 + ColVal(t, "val")) + t.rows

RECURSIVE ApplyModifiers(_, _, _, _, _)
\* apply_modifiers over the column's effect modifiers, in list order; an
\* effect whose table has no _effect_ column in the context is skipped.
ApplyModifiers(v, effects, i, ctx, gd) ==
    IF i > Len(effects) THEN v
    ELSE ApplyModifiers(IF effects[i] \in ctx THEN ModifyEffect(v, gd[effects[i]]) ELSE v,
                        effects, i + 1, ctx, gd)

(***************************************************************************)
(* core/executor.py: generating one node.                                  *)
(***************************************************************************)

Env(ds, ms, n, size, gd, cache) ==
    [ds |-> ds, ms |-> ms, n |-> n, size |-> size, gd |-> gd, cache |-> cache]

Gen(err, cols, fk) == [err |-> err, cols |-> cols, fk |-> fk]

\* The test of generate_entity (lines 96-103) for a self-referential lookup column.
IsSelfLookup(n, col) == col.gen = "lookup" /\ col.from = n

\* One column of a generate_* loop: _generate_column, then apply_modifiers
\* under the context of _build_context_with_effects, then the cast.
GenerateColumn(env, col, fk) ==
    LET r == RegistryGenerate(col, env.size, ColumnSeed(env.ms, env.n, col.name), env.cache, fk)
    IN  IF r.err THEN r
        ELSE IF col.effects = <<>> THEN r
        ELSE Val(ApplyModifiers(r.v, col.effects, 1, BuildContextWithEffects(col.effects, env.gd), env.gd),
                 r.fk)

RECURSIVE GenColumnsFrom(_, _, _, _, _, _)
\* The column loop of generate_entity / generate_vocab / generate_fact from
\* column i on: mode.pass selects the columns this pass generates, mode.direct
\* the table whose lookups are answered by index-based repetition (facts only).
GenColumnsFrom(env, cols, i, acc, fk, mode) ==
    IF i > Len(cols) THEN Gen(FALSE, acc, fk)
    ELSE LET col == cols[i]
             skip == \/ mode.pass = "first" /\ IsSelfLookup(env.n, col)
                     \/ mode.pass = "second" /\ ~IsSelfLookup(env.n, col)
         IN  IF skip THEN GenColumnsFrom(env, cols, i + 1, acc, fk, mode)
             ELSE IF col.gen = "lookup" /\ col.from = mode.direct
             THEN GenColumnsFrom(env, cols, i + 1,
                                 Append(acc, [name |-> col.name, v |-> ColVal(env.gd[mode.direct], "id")]),
                                 fk, mode)
             ELSE LET r == GenerateColumn(env, col, fk)
                  IN  IF r.err THEN Gen(TRUE, acc, r.fk)
                      ELSE GenColumnsFrom(env, cols, i + 1,
                                          Append(acc, [name |-> col.name, v |-> r.v]), r.fk, mode)

NoDirect == "-"

\* generate_entity, lines 85-120: the first pass over the columns that are
\* not self-referential lookups.
EntityFirstPass(ds, ms, n, gd, cache, fk) ==
    GenColumnsFrom(Env(ds, ms, n, EntityRows, gd, cache), Columns(ds, n), 1, <<>>, fk,
                   [pass |-> "first", direct |-> NoDirect])

\* generate_entity, lines 129-144: the second pass over the self-referential
\* lookup columns, the partial table being in the resolver's cache.
EntitySecondPass(ds, ms, n, acc, gd, cache, fk) ==
    GenColumnsFrom(Env(ds, ms, n, EntityRows, gd, cache), Columns(ds, n), 1, acc, fk,
                   [pass |-> "second", direct |-> NoDirect])

\* generate_entity line 123 read as "always false": no second pass.
NeedsSecondPassNever(ds, n) == FALSE

\* generate_entity line 123: lookup_columns is not empty. generate_fact hands
\* parentless facts to generate_entity; generate_vocab has no second pass.
NeedsSecondPass(ds, n) == Kind(ds, n) = "entity" /\ n \in LookupTables(ds, n)

\* generate_vocab: every column in one pass, the row count taken from the
\* enum_list column.
GenerateVocab(ds, ms, n, gd, cache, fk) ==
    GenColumnsFrom(Env(ds, ms, n, VocabRows, gd, cache), Columns(ds, n), 1, <<>>, fk,
                   [pass |-> "all", direct |-> NoDirect])

\* sample_fanout through _sample_fanout: the per-parent count, drawn from
\* the node-level rng.
SampleFanoutCount(ms, n) == Draw(NodeSeed(ms, n), 0, MaxFanout + 1)

RECURSIVE ApplyTableEffectsToFanout(_, _, _, _)
\* _apply_table_effects_to_fanout: every effect whose table is in
\* generated_data scales the count; the others are skipped with a warning.
ApplyTableEffectsToFanout(count, effects, i, gd) ==
    IF i > Len(effects) THEN count
    ELSE ApplyTableEffectsToFanout(
             IF gd[effects[i]] # NoTable THEN count * (2 + ColVal(gd[effects[i]], "val")) ELSE count,
             effects, i + 1, gd)

\* generate_fact for a fact with parents: [err, rows, cols, fk].
GenerateFact(ds, ms, n, gd, cache, fk) ==
    LET primary == Parents(ds, n)[1]
    IN  IF gd[primary] = NoTable THEN [err |-> TRUE, rows |-> 0, cols |-> <<>>, fk |-> fk]
        ELSE LET count == ApplyTableEffectsToFanout(SampleFanoutCount(ms, n),
                                                    SortedSeq(TableEffectTables(ds, n)), 1, gd)
                 total == gd[primary].rows * count
                 g == GenColumnsFrom(Env(ds, ms, n, total, gd, cache), Columns(ds, n), 1, <<>>, fk,
                                     [pass |-> "all", direct |-> primary])
             IN  [err |-> g.err, rows |-> total, cols |-> g.cols, fk |-> g.fk]

\* generate_node up to the point where it returns or stores a partial
\* table: [err, partial, table, fk].
GenerateNode(ds, ms, n, gd, cache, fk) ==
    CASE Kind(ds, n) = "fact" ->
            LET g == GenerateFact(ds, ms, n, gd, cache, fk)
            IN  [err |-> g.err, partial |-> FALSE, table |-> Table("complete", g.rows, g.cols), fk |-> g.fk]
      [] Kind(ds, n) = "vocab" ->
            LET g == GenerateVocab(ds, ms, n, gd, cache, fk)
            IN  [err |-> g.err, partial |-> FALSE, table |-> Table("complete", VocabRows, g.cols), fk |-> g.fk]
      [] Kind(ds, n) = "entity" ->
            LET g == EntityFirstPass(ds, ms, n, gd, cache, fk)
                second == NeedsSecondPass(ds, n)
            IN  [err |-> g.err, partial |-> second,
                 table |-> Table(IF second THEN "partial" ELSE "complete", EntityRows, g.cols),
                 fk |-> g.fk]

\* execute, lines 51-53, swallowing an exception of generate_node.
AfterRaiseContinue == "running"

\* execute, lines 51-53: an exception of generate_node leaves execute.
AfterRaise == "error"

(***************************************************************************)
(* core/executor.py: DatasetExecutor and generate_dataset.                 *)
(***************************************************************************)

\* Most references and kind marks a dataset run by the executor declares.
MaxRefs == 2

ExecRefs ==
    {Ref("lookup", n, t) : n \in Ids, t \in Ids}
        \cup {r \in {Ref(s, n, t) : s \in {"parent", "choices_ref", "effect", "table_effect"},
                                    n \in Ids, t \in Ids} : r.node # r.target}
        \cup {Ref("vocab", n, n) : n \in Ids}

\* Explicit dags the executor is run with: none, every order of the ids as
\* one level or as one level per id, and one that names an id twice.
ExecDags ==
    {<<>>, <<<<"a">>, <<"b">>, <<"c">>, <<"a">>>>}
        \cup {<<p>> : p \in Perms}
        \cup {<<<<p[1]>>, <<p[2]>>, <<p[3]>>>> : p \in Perms}

\* schema.py:312-329: vocab and entity nodes have no parents.
SchemaValid(rs) ==
    \A q \in rs : q.slot = "vocab" => ~\E r \in rs : r.slot = "parent" /\ r.node = q.node

ExecDatasets ==
    {[refs |-> rs, dag |-> d] : rs \in {x \in KSubsets(ExecRefs, MaxRefs) : SchemaValid(x)},
                                d \in ExecDags}

MasterSeeds == {42}

NoResult == [state |-> "none", tables |-> [n \in Ids |-> NoTable]]
RaisedResult == [state |-> "raised", tables |-> [n \in Ids |-> NoTable]]
Returned(gd) == [state |-> "returned", tables |-> gd]

\* No function call is under study.
NoCall == [fn |-> "none", state |-> "idle"]

InitHist ==
    [begun |-> {}, seen |-> [n \in Ids |-> {}], completed |-> {}, registered |-> {},
     gd_writes |-> [n \in Ids |-> 0], cache_writes |-> [n \in Ids |-> 0],
     raised |-> FALSE, after_raise |-> {}]

NewExecutor ==
    /\ pc = "new"
    /\ dag = NotBuilt
    /\ level_idx = 1
    /\ node_idx = 1
    /\ phase = [n \in Ids |-> "idle"]
    /\ data = [n \in Ids |-> NoTable]
    /\ generated_data = [n \in Ids |-> NoTable]
    /\ data_cache = [n \in Ids |-> NoTable]
    /\ hist = InitHist

Init ==
    /\ dataset \in ExecDatasets
    /\ master_seed \in MasterSeeds
    /\ output_dir = FALSE
    /\ faker_state = [seed |-> 0, pos |-> 0]
    /\ files = {}
    /\ run = 1
    /\ first_result = NoResult
    /\ call = NoCall
    /\ NewExecutor

\* DatasetExecutor.__init__: build_dag; an exception leaves no executor.
Construct ==
    /\ pc = "new"
    /\ dag' = BuildDag(dataset)
    /\ pc' = IF dag'.ok THEN "running" ELSE "build_error"
    /\ UNCHANGED <<call, dataset, master_seed, output_dir, level_idx, node_idx, phase, data,
                   generated_data, data_cache, faker_state, files, run, first_result, hist>>

InLevels == pc = "running" /\ level_idx <= Len(dag.levels)

\* The node the loops of execute (lines 48-51) stand at.
IsCur(n) == InLevels /\ n = dag.levels[level_idx][node_idx]

\* A node of the current level not yet registered: what a scheduler that
\* runs a level's nodes in any order, or interleaved, may pick.
IsPending(n) == InLevels /\ n \in Range(dag.levels[level_idx]) /\ n \notin hist.registered

\* The loops of execute moving on to the next node.
Advance ==
    IF node_idx < Len(dag.levels[level_idx])
    THEN /\ node_idx' = node_idx + 1
         /\ level_idx' = level_idx
    ELSE /\ node_idx' = 1
         /\ level_idx' = level_idx + 1

Stored(gd) == {m \in Ids : gd[m].stage = "complete"}

\* generate_node raised: execute is left (line 53 has no handler).
RaiseFrom(n, fk) ==
    /\ pc' = AfterRaise
    /\ faker_state' = fk
    /\ Advance
    /\ phase' = [phase EXCEPT ![n] = "idle"]
    /\ UNCHANGED <<data, generated_data, data_cache>>

\* execute line 53 calling generate_node(node), up to its return or to the
\* partial table of generate_entity being stored (lines 123-127).
GenerateStep(n) ==
    /\ phase[n] = "idle"
    /\ \E g \in {GenerateNode(dataset, master_seed, n, generated_data, data_cache, faker_state)} :
       LET h == [hist EXCEPT !.begun = @ \cup {n},
                             !.seen[n] = Stored(generated_data) \cap Stored(data_cache),
                             !.after_raise = IF hist.raised THEN @ \cup {n} ELSE @]
       IN  IF g.err
           THEN /\ RaiseFrom(n, g.fk)
                /\ hist' = [h EXCEPT !.raised = TRUE]
           ELSE /\ faker_state' = g.fk
                /\ data' = [data EXCEPT ![n] = g.table]
                /\ UNCHANGED <<pc, level_idx, node_idx>>
                /\ IF g.partial
                   THEN /\ phase' = [phase EXCEPT ![n] = "second"]
                        /\ generated_data' = [generated_data EXCEPT ![n] = g.table]
                        /\ data_cache' = [data_cache EXCEPT ![n] = g.table]
                        /\ hist' = [h EXCEPT !.gd_writes[n] = @ + 1, !.cache_writes[n] = @ + 1]
                   ELSE /\ phase' = [phase EXCEPT ![n] = "ready"]
                        /\ UNCHANGED <<generated_data, data_cache>>
                        /\ hist' = [h EXCEPT !.completed = @ \cup {n}]
    /\ UNCHANGED <<call, dataset, master_seed, output_dir, dag, files, run, first_result>>

\* generate_entity lines 129-147: the second pass, then the return.
SecondPassStep(n) ==
    /\ phase[n] = "second"
    /\ \E g \in {EntitySecondPass(dataset, master_seed, n, data[n].cols, generated_data,
                                   data_cache, faker_state)} :
           IF g.err
           THEN /\ RaiseFrom(n, g.fk)
                /\ hist' = [hist EXCEPT !.raised = TRUE]
           ELSE /\ faker_state' = g.fk
                /\ data' = [data EXCEPT ![n] = Table("complete", data[n].rows, g.cols)]
                /\ phase' = [phase EXCEPT ![n] = "ready"]
                /\ hist' = [hist EXCEPT !.completed = @ \cup {n}]
                /\ UNCHANGED <<pc, level_idx, node_idx, generated_data, data_cache>>
    /\ UNCHANGED <<call, dataset, master_seed, output_dir, dag, files, run, first_result>>

\* execute lines 56-59: register_table(node_id, df), generated_data[node_id] = df.
RegisterStep(n) ==
    /\ phase[n] = "ready"
    /\ data_cache' = [data_cache EXCEPT ![n] = data[n]]
    /\ generated_data' = [generated_data EXCEPT ![n] = data[n]]
    /\ phase' = [phase EXCEPT ![n] = "idle"]
    /\ Advance
    /\ hist' = [hist EXCEPT !.registered = @ \cup {n},
                            !.gd_writes[n] = @ + 1, !.cache_writes[n] = @ + 1]
    /\ UNCHANGED <<call, dataset, master_seed, output_dir, pc, dag, data, faker_state, files, run,
                   first_result>>

\* write_output: one parquet file per stored table and the metadata file.
WriteOutput(gd) == {m \in Ids : gd[m] # NoTable} \cup {".metadata.json"}

\* execute lines 63-69: the loops are over; write_output if a directory was
\* given; return generated_data.
Finish ==
    /\ pc = "running"
    /\ level_idx > Len(dag.levels)
    /\ \E od \in BOOLEAN :
          /\ output_dir' = od
          /\ files' = IF od THEN files \cup WriteOutput(generated_data) ELSE files
    /\ pc' = "done"
    /\ UNCHANGED <<call, dataset, master_seed, dag, level_idx, node_idx, phase, data, generated_data,
                   data_cache, faker_state, run, first_result, hist>>

Generate == \E n \in Ids : IsCur(n) /\ GenerateStep(n)
SecondPass == \E n \in Ids : IsCur(n) /\ SecondPassStep(n)
Register == \E n \in Ids : IsCur(n) /\ RegisterStep(n)

Next == Construct \/ Generate \/ SecondPass \/ Register \/ Finish

Spec == Init /\ [][Next]_vars

(***************************************************************************)
(* A level's nodes generated in any order, interleaved.                    *)
(***************************************************************************)

AnyOrderInit ==
    /\ dataset \in {d \in ExecDatasets : d.dag = <<>>}
    /\ master_seed \in MasterSeeds
    /\ output_dir = FALSE
    /\ faker_state = [seed |-> 0, pos |-> 0]
    /\ files = {}
    /\ run = 1
    /\ first_result = NoResult
    /\ call = NoCall
    /\ NewExecutor

GenerateAny == \E n \in Ids : IsPending(n) /\ GenerateStep(n)
SecondPassAny == \E n \in Ids : IsPending(n) /\ SecondPassStep(n)
RegisterAny == \E n \in Ids : IsPending(n) /\ RegisterStep(n)

AnyOrderNext == Construct \/ GenerateAny \/ SecondPassAny \/ RegisterAny \/ Finish

SpecAnyOrder == AnyOrderInit /\ [][AnyOrderNext]_vars

RECURSIVE RunListed(_, _, _, _, _, _, _)
\* The loops of execute over the node ids in listed order, from the i-th on:
\* whether a node raised, and generated_data at the end.
RunListed(ds, ms, order, i, gd, cache, fk) ==
    IF i > Len(order) THEN [err |-> FALSE, gd |-> gd]
    ELSE LET n == order[i]
             g == GenerateNode(ds, ms, n, gd, cache, fk)
         IN  IF g.err THEN [err |-> TRUE, gd |-> gd]
             ELSE IF ~g.partial
             THEN RunListed(ds, ms, order, i + 1, [gd EXCEPT ![n] = g.table],
                            [cache EXCEPT ![n] = g.table], g.fk)
             ELSE LET gd1 == [gd EXCEPT ![n] = g.table]
                      cache1 == [cache EXCEPT ![n] = g.table]
                      g2 == EntitySecondPass(ds, ms, n, g.table.cols, gd1, cache1, g.fk)
                      t2 == Table("complete", g.table.rows, g2.cols)
                  IN  IF g2.err THEN [err |-> TRUE, gd |-> gd1]
                      ELSE RunListed(ds, ms, order, i + 1, [gd EXCEPT ![n] = t2],
                                     [cache EXCEPT ![n] = t2], g2.fk)

(***************************************************************************)
(* generate_dataset called twice in one process.                           *)
(***************************************************************************)

RerunSeeds == {42, 43}

RerunInit ==
    /\ dataset \in {d \in ExecDatasets : d.dag = <<>>}
    /\ master_seed \in RerunSeeds
    /\ output_dir = FALSE
    /\ faker_state = [seed |-> 0, pos |-> 0]
    /\ files = {}
    /\ run = 1
    /\ first_result = NoResult
    /\ call = NoCall
    /\ NewExecutor

\* A second generate_dataset(dataset, master_seed): a new DatasetExecutor
\* with its own generated_data and LookupResolver; the module-level
\* FakerAdapter is the one the first call used.
Rerun ==
    /\ run = 1
    /\ pc \in {"done", "error", "build_error"}
    /\ first_result' = IF pc = "done" THEN Returned(generated_data) ELSE RaisedResult
    /\ run' = 2
    /\ pc' = "new"
    /\ dag' = NotBuilt
    /\ level_idx' = 1
    /\ node_idx' = 1
    /\ phase' = [n \in Ids |-> "idle"]
    /\ data' = [n \in Ids |-> NoTable]
    /\ generated_data' = [n \in Ids |-> NoTable]
    /\ data_cache' = [n \in Ids |-> NoTable]
    /\ hist' = InitHist
    /\ UNCHANGED <<call, dataset, master_seed, output_dir, faker_state, files>>

RerunNext == Construct \/ Generate \/ SecondPass \/ Register \/ Finish \/ Rerun

SpecRerun == RerunInit /\ [][RerunNext]_vars

(***************************************************************************)
(* build_dag as a one-step program over the modelled datasets.             *)
(***************************************************************************)

\* Splits of a sequence into consecutive non-empty levels.
RECURSIVE Splits(_)
Splits(flat) ==
    IF Len(flat) = 0 THEN {<<>>}
    ELSE UNION {{<<SubSeq(flat, 1, k)>> \o rest : rest \in Splits(SubSeq(flat, k + 1, Len(flat)))}
                : k \in 1..Len(flat)}

\* Explicit dags naming every node (schema.py:507-518): every split of every
\* order of the ids, and orders that name one id a second time.
ExplicitDags ==
    UNION {Splits(p) : p \in Perms}
        \cup {<<<<p[1]>>, <<p[2]>>, <<p[3]>>, <<x>>>> : p \in Perms, x \in Ids}
        \cup {<<<<p[1], p[2]>>, <<p[3], x>>>> : p \in Perms, x \in Ids}

DagDatasets ==
    {[refs |-> rs, dag |-> d] : rs \in KSubsets(DagRefs, MaxDagRefs), d \in {<<>>} \cup ExplicitDags}

DagInit ==
    /\ dataset \in DagDatasets
    /\ master_seed = 42
    /\ output_dir = FALSE
    /\ faker_state = [seed |-> 0, pos |-> 0]
    /\ files = {}
    /\ run = 1
    /\ first_result = NoResult
    /\ call = NoCall
    /\ NewExecutor

\* build_dag(dataset)
Build ==
    /\ pc = "new"
    /\ dag' = BuildDag(dataset)
    /\ pc' = IF dag'.ok THEN "built" ELSE "build_error"
    /\ UNCHANGED <<call, dataset, master_seed, output_dir, level_idx, node_idx, phase, data,
                   generated_data, data_cache, faker_state, files, run, first_result, hist>>

DagNext == Build

SpecDag == DagInit /\ [][DagNext]_vars

(***************************************************************************)
(* generators/primitives.py: sample_fanout as a one-call program.          *)
(***************************************************************************)

\* Python's None for an Optional[int] / Optional[float] argument.
None == -1

MaxSize == 2
MaxBound == 3
MaxDraw == 4
Lambda == 2

\* What rng.poisson(lambda_, size) and rng.integers(min_val, max_val + 1, size)
\* can return: size non-negative integers; size integers of [min_val, max_val],
\* none when the interval is empty (numpy raises ValueError: low >= high).
RngPoisson(size) == [1..size -> 0..MaxDraw]
RngIntegers(low, high, size) == [1..size -> low..(high - 1)]

Maximum(counts, m) == [i \in DOMAIN counts |-> IF counts[i] < m THEN m ELSE counts[i]]
Minimum(counts, m) == [i \in DOMAIN counts |-> IF counts[i] > m THEN m ELSE counts[i]]

\* sample_fanout lines 265-269: the bounds applied to the drawn counts.
ApplyBounds(counts, min_val, max_val) ==
    LET lo == IF min_val # None THEN Maximum(counts, min_val) ELSE counts
    IN  IF max_val # None THEN Minimum(lo, max_val) ELSE lo

FanoutRaised == [raised |-> TRUE, counts |-> <<>>]
FanoutCounts(counts) == [raised |-> FALSE, counts |-> counts]

\* sample_fanout: the outcomes the call can have, over the generator's draws.
SampleFanout(distribution, size, lambda_, min_val, max_val) ==
    IF distribution = "poisson"
    THEN IF lambda_ = None THEN {FanoutRaised}
         ELSE {FanoutCounts(ApplyBounds(c, min_val, max_val)) : c \in RngPoisson(size)}
    ELSE IF distribution = "uniform"
    THEN IF min_val = None \/ max_val = None THEN {FanoutRaised}
         ELSE IF min_val >= max_val + 1 THEN {FanoutRaised}
         ELSE {FanoutCounts(ApplyBounds(c, min_val, max_val)) :
                  c \in RngIntegers(min_val, max_val + 1, size)}
    ELSE {FanoutRaised}

OptBound == {None} \cup 0..MaxBound

FanoutInit ==
    /\ dataset = [refs |-> {}, dag |-> <<>>]
    /\ master_seed = 42
    /\ output_dir = FALSE
    /\ faker_state = [seed |-> 0, pos |-> 0]
    /\ files = {}
    /\ run = 1
    /\ first_result = NoResult
    /\ NewExecutor
    /\ call \in [fn : {"sample_fanout"}, state : {"called"},
                 distribution : {"poisson", "uniform"}, size : 1..MaxSize,
                 lambda_ : {None, Lambda}, min_val : OptBound, max_val : OptBound,
                 raised : {FALSE}, counts : {<<>>}]

SampleFanoutCall ==
    /\ call.fn = "sample_fanout"
    /\ call.state = "called"
    /\ \E r \in SampleFanout(call.distribution, call.size, call.lambda_, call.min_val,
                             call.max_val) :
          call' = [call EXCEPT !.state = "returned", !.raised = r.raised, !.counts = r.counts]
    /\ UNCHANGED <<dataset, master_seed, output_dir, pc, dag, level_idx, node_idx, phase, data,
                   generated_data, data_cache, faker_state, files, run, first_result, hist>>

FanoutNext == SampleFanoutCall

SpecFanout == FanoutInit /\ [][FanoutNext]_vars

(***************************************************************************)
(* executor.py: the rows of generate_fact as a one-call program.  Values   *)
(* are in tenths, so that 15 is the float 1.5 and 20 is 2 or 2.0.          *)
(***************************************************************************)

MaxParentRows == 2

\* The fact's columns that are lookups of a primary-parent column, and their
\* positions in node.columns.
LookupColumns == {"parent_id", "parent_score"}
ColumnIndex(c) == CASE c = "parent_id" -> 0 [] c = "parent_score" -> 1

ParentCols == {"id", "score"}
ScoreValues == {0, 15}
Types == {"int", "float", "bool"}
Multiply == "multiply"
Add == "add"
ModifierLists == {<<>>, <<Multiply>>, <<Add>>, <<Multiply, Add>>}

RECURSIVE Sum(_)
Sum(counts) == IF counts = <<>> THEN 0 ELSE Head(counts) + Sum(Tail(counts))

RECURSIVE RepeatFrom(_, _)
\* np.repeat(np.arange(len(parent_df)), fanout_counts), from parent row i on.
RepeatFrom(counts, i) ==
    IF i > Len(counts) THEN <<>>
    ELSE [k \in 1..counts[i] |-> i] \o RepeatFrom(counts, i + 1)

\* One draw per child row instead of the repetition: what sampling the parent
\* rows anew for a column would give.
ResampleIndices(counts, col) ==
    [k \in 1..Sum(counts) |-> ((k + ColumnIndex(col)) % Len(counts)) + 1]

\* generate_fact line 250, as every lookup column of the parent uses it.
ParentIndices(counts, col) == RepeatFrom(counts, 1)

\* modify_multiply with factor 2, modify_add with value 1.0.
ModifyMultiply(v) == v * 2
ModifyAdd(v) == v + 10

RECURSIVE ApplyColumnModifiers(_, _)
\* apply_modifiers over a column's modifier list, in list order.
ApplyColumnModifiers(v, modifiers) ==
    IF modifiers = <<>> THEN v
    ELSE ApplyColumnModifiers(IF Head(modifiers) = Multiply THEN ModifyMultiply(v)
                              ELSE ModifyAdd(v),
                              Tail(modifiers))

\* _cast_to_dtype left out.
CastToDtypeAsIs(v, type) == v

\* _cast_to_dtype: astype(int) drops the fraction, astype(bool) is v != 0.
CastToDtype(v, type) ==
    CASE type = "int" -> (v \div 10) * 10
      [] type = "float" -> v
      [] type = "bool" -> IF v # 0 THEN 10 ELSE 0

\* generate_fact lines 256-299, for a column that is a lookup of a column of
\* the primary parent: the child rows' values.
FactLookupColumn(parent, counts, c, col) ==
    [k \in 1..Sum(counts) |->
        CastToDtype(ApplyColumnModifiers(parent[ParentIndices(counts, c)[k]][col.from],
                                         col.modifiers),
                    col.type)]

\* generate_fact: the child table of the lookup columns cols.
GenerateFactRows(parent, counts, cols) ==
    [c \in LookupColumns |-> FactLookupColumn(parent, counts, c, cols[c])]

LookupCol == [from : ParentCols, type : Types, modifiers : ModifierLists]

ParentTables ==
    UNION {{[i \in 1..n |-> [id |-> 10 * i, score |-> sc[i]]] : sc \in [1..n -> ScoreValues]}
           : n \in 1..MaxParentRows}

FactInit ==
    /\ dataset = [refs |-> {Ref("parent", "b", "a")}, dag |-> <<>>]
    /\ master_seed = 42
    /\ output_dir = FALSE
    /\ faker_state = [seed |-> 0, pos |-> 0]
    /\ files = {}
    /\ run = 1
    /\ first_result = NoResult
    /\ NewExecutor
    /\ \E parent \in ParentTables :
          call \in [fn : {"generate_fact"}, state : {"called"}, parent : {parent},
                    counts : [1..Len(parent) -> 0..MaxFanout],
                    cols : [LookupColumns -> LookupCol],
                    child : {[c \in LookupColumns |-> <<>>]}]

GenerateFactCall ==
    /\ call.fn = "generate_fact"
    /\ call.state = "called"
    /\ call' = [call EXCEPT !.state = "returned",
                            !.child = GenerateFactRows(call.parent, call.counts, call.cols)]
    /\ UNCHANGED <<dataset, master_seed, output_dir, pc, dag, level_idx, node_idx, phase, data,
                   generated_data, data_cache, faker_state, files, run, first_result, hist>>

FactNext == GenerateFactCall

SpecFact == FactInit /\ [][FactNext]_vars

(***************************************************************************)
(* core/preflight.py: preflight_validate as a program of one step per      *)
(* check of validate_all.                                                  *)
(***************************************************************************)

\* The checks of validate_all, in call order.
Checks ==
    <<"lookup_references", "faker_methods", "expression_syntax", "modifier_compatibility",
      "constraint_references", "target_references", "parent_references", "fanout_rules",
      "locale_references", "column_types">>

\* The severities a check can record: _validate_modifier_compatibility
\* appends to self.errors and to self.warnings, _validate_column_types to
\* self.warnings only, every other check to self.errors only.
CanRecord(check) ==
    CASE check = "modifier_compatibility" -> {"error", "warning"}
      [] check = "column_types" -> {"warning"}
      [] OTHER -> {"error"}

PreflightError(severity, location) == [severity |-> severity, location |-> location]

\* What a dataset makes each check find: per check, the severities recorded.
Findings == {f \in [Range(Checks) -> SUBSET {"error", "warning"}] :
                \A c \in Range(Checks) : f[c] \subseteq CanRecord(c)}

\* One _validate_* method: its findings appended to self.errors / self.warnings.
RunCheck(check, found, errors, warnings) ==
    [errors |-> IF "error" \in found[check]
                THEN Append(errors, PreflightError("error", check)) ELSE errors,
     warnings |-> IF "warning" \in found[check]
                  THEN Append(warnings, PreflightError("warning", check)) ELSE warnings]

\* validate_all's result read as "nothing at all was found".
PassedNoFindings(errors, warnings) == errors = <<>> /\ warnings = <<>>

\* validate_all line 59: len(self.errors) == 0.
Passed(errors, warnings) == errors = <<>>

\* get_report: every error, then every warning.
GetReport(errors, warnings) == errors \o warnings

PreflightInit ==
    /\ dataset = [refs |-> {}, dag |-> <<>>]
    /\ master_seed = 42
    /\ output_dir = FALSE
    /\ faker_state = [seed |-> 0, pos |-> 0]
    /\ files = {}
    /\ run = 1
    /\ first_result = NoResult
    /\ NewExecutor
    /\ call \in [fn : {"preflight_validate"}, state : {"checking"}, found : Findings,
                 next : {1}, errors : {<<>>}, warnings : {<<>>}, report : {<<>>},
                 stderr : {<<>>}]

OnlyCallChanges ==
    UNCHANGED <<dataset, master_seed, output_dir, pc, dag, level_idx, node_idx, phase, data,
                generated_data, data_cache, faker_state, files, run, first_result, hist>>

\* validate_all lines 48-57: the next _validate_* call.
ValidateNext ==
    /\ call.fn = "preflight_validate"
    /\ call.state = "checking"
    /\ call.next <= Len(Checks)
    /\ \E r \in {RunCheck(Checks[call.next], call.found, call.errors, call.warnings)} :
          call' = [call EXCEPT !.next = @ + 1, !.errors = r.errors, !.warnings = r.warnings]
    /\ OnlyCallChanges

\* preflight_validate lines 605-614: raise with the report, or print the
\* report of the warnings and return True.
PreflightFinish ==
    /\ call.fn = "preflight_validate"
    /\ call.state = "checking"
    /\ call.next > Len(Checks)
    /\ call' = IF ~Passed(call.errors, call.warnings)
               THEN [call EXCEPT !.state = "raised",
                                 !.report = GetReport(call.errors, call.warnings)]
               ELSE [call EXCEPT !.state = "returned",
                                 !.stderr = IF call.warnings # <<>>
                                            THEN GetReport(call.errors, call.warnings)
                                            ELSE <<>>]
    /\ OnlyCallChanges

PreflightNext == ValidateNext \/ PreflightFinish

SpecPreflight == PreflightInit /\ [][PreflightNext]_vars

(***************************************************************************)
(* core/schema.py validate_schema followed by generation, over the column  *)
(* specs of a one-node dataset.                                            *)
(***************************************************************************)

MaxColumns == 2

\* Generator and modifier specs of a column:
\*   choice_list        {"choice": {"choices": [...]}}
\*   choice_ref         {"choice": {"choices_ref": "t.c"}}
\*   choice_none        {"choice": {}}
\*   lookup_unknown     {"lookup": {"from": "nowhere.c"}}
\*   faker_unknown      {"faker": {"method": "no_such_method"}}
\*   seasonality_dow7   numeric column after a datetime column, modifier
\*                      seasonality, dimension "dow", 7 weights
\*   seasonality_dow3   the same with 3 weights
\*   seasonality_week   the same with dimension "week"
\*   transform_unknown  modifier {"transform": "scale", "args": {}}
ColumnSpecs ==
    {"choice_list", "choice_ref", "choice_none", "lookup_unknown", "faker_unknown",
     "seasonality_dow7", "seasonality_dow3", "seasonality_week", "transform_unknown"}

\* Dataset.model_validate: ChoiceGenerator.validate_choice wants choices or
\* choices_ref; ModifierSpec.transform is a Literal of the known transforms.
ModelValidate(spec) == spec \notin {"choice_none", "transform_unknown"}

\* The findings of the preflight checks for one column spec.
PreflightFindings(spec) ==
    [c \in Range(Checks) |->
        CASE c = "lookup_references" /\ spec = "lookup_unknown" -> {"error"}
          [] c = "faker_methods" /\ spec = "faker_unknown" -> {"error"}
          [] c = "modifier_compatibility" /\ spec = "seasonality_week" -> {"error"}
          [] c = "modifier_compatibility" /\ spec = "seasonality_dow3" -> {"warning"}
          [] OTHER -> {}]

RECURSIVE ValidateAllFrom(_, _, _, _)
\* validate_all from check i on, for the column specs cols: [errors, warnings].
ValidateAllFrom(cols, i, errors, warnings) ==
    IF i > Len(Checks) THEN [errors |-> errors, warnings |-> warnings]
    ELSE LET found == [c \in Range(Checks) |->
                          UNION {PreflightFindings(cols[k])[c] : k \in DOMAIN cols}]
             r == RunCheck(Checks[i], found, errors, warnings)
         IN  ValidateAllFrom(cols, i + 1, r.errors, r.warnings)

\* validate_schema: structural validation, then preflight_validate; TRUE
\* when the Dataset is returned.
ValidateSchema(cols) ==
    /\ \A k \in DOMAIN cols : ModelValidate(cols[k])
    /\ LET r == ValidateAllFrom(cols, 1, <<>>, <<>>)
       IN  Passed(r.errors, r.warnings)

\* The generation path for one column spec: TRUE when it raises.
\* GeneratorRegistry._gen_choice raises on choices_ref; LookupResolver.lookup
\* on a table that is not in the cache; getattr(faker, method) on an unknown
\* method; get_seasonality_multiplier on an unknown dimension and on a
\* weight count other than the dimension's length.
GenerationRaises(spec) ==
    spec \in {"choice_ref", "choice_none", "lookup_unknown", "faker_unknown",
              "seasonality_dow3", "seasonality_week", "transform_unknown"}

ValidateInit ==
    /\ dataset = [refs |-> {}, dag |-> <<>>]
    /\ master_seed = 42
    /\ output_dir = FALSE
    /\ faker_state = [seed |-> 0, pos |-> 0]
    /\ files = {}
    /\ run = 1
    /\ first_result = NoResult
    /\ NewExecutor
    /\ call \in [fn : {"validate_schema"}, state : {"called"},
                 cols : UNION {[1..k -> ColumnSpecs] : k \in 1..MaxColumns},
                 generated : {0}]

\* validate_schema(schema_dict)
ValidateSchemaCall ==
    /\ call.fn = "validate_schema"
    /\ call.state = "called"
    /\ call' = [call EXCEPT !.state = IF ValidateSchema(call.cols) THEN "valid" ELSE "invalid"]
    /\ OnlyCallChanges

\* generate_dataset on the returned Dataset: the next column of the node.
GenerateColumnCall ==
    /\ call.fn = "validate_schema"
    /\ call.state = "valid"
    /\ call.generated < Len(call.cols)
    /\ call' = IF GenerationRaises(call.cols[call.generated + 1])
               THEN [call EXCEPT !.state = "generation_raised"]
               ELSE [call EXCEPT !.generated = @ + 1]
    /\ OnlyCallChanges

ValidateNextStep == ValidateSchemaCall \/ GenerateColumnCall

SpecValidate == ValidateInit /\ [][ValidateNextStep]_vars

(***************************************************************************)
(* core/state_transition_utils.py: _simulate_entity_transitions for one    *)
(* entity, one step per loop iteration.  Times are in days.                *)
(***************************************************************************)

MaxTransitions == 2
MaxDelay == 2

States == {"active", "churned"}

\* states[s]: the "terminal" flag, transition_prob_per_period (in tenths) and
\* the next_states of positive weight.
StateConfigs == [terminal : BOOLEAN, prob : {0, 5}, next : SUBSET States]

\* segment_variation[segment]["churn_multiplier"], in tenths.
ChurnMultipliers == {0, 30}

StartTimes == {0, 2}
\* timeframe_end; None when not given.
EndTimes == {None, 1, 3}

\* state_config.get("terminal", False) read as never set.
IsTerminalNever(states, s) == FALSE

\* Line 194: state_config.get("terminal", False).
IsTerminal(states, s) == states[s].terminal

\* Lines 204-232: the probability after the multipliers, capped at 1.0.
EffectiveProb(states, s, churn_mult) ==
    LET p == (states[s].prob * churn_mult) \div 10
    IN  IF p > 10 THEN 10 ELSE p

\* The while condition read as "while True".
LoopContinuesAlways(transition_index, max_transitions) == TRUE

\* Line 190: while transition_index < max_transitions.
LoopContinues(transition_index, max_transitions) == transition_index < max_transitions

\* Lines 191-267 up to the draw of the next state: TRUE when the iteration
\* breaks out of the loop, next_time being current_time plus the drawn delay.
Breaks(c, next_time) ==
    \/ IsTerminal(c.states, c.current_state)
    \/ c.states[c.current_state].prob <= 0
    \/ EffectiveProb(c.states, c.current_state, c.churn_mult) <= 0
    \/ c.end_time # None /\ next_time > c.end_time
    \/ c.states[c.current_state].next = {}

\* The record built with from_state and to_state exchanged.
TransitionRecordSwapped(time, from, to, index) ==
    [transition_time |-> time, from_state |-> to, to_state |-> from, transition_index |-> index]

\* Lines 181-186 and 280-286: one record of the result.
TransitionRecord(time, from, to, index) ==
    [transition_time |-> time, from_state |-> from, to_state |-> to, transition_index |-> index]

StatesInit ==
    /\ dataset = [refs |-> {}, dag |-> <<>>]
    /\ master_seed = 42
    /\ output_dir = FALSE
    /\ faker_state = [seed |-> 0, pos |-> 0]
    /\ files = {}
    /\ run = 1
    /\ first_result = NoResult
    /\ NewExecutor
    /\ call \in [fn : {"simulate_entity_transitions"}, state : {"called"},
                 states : [States -> StateConfigs], initial_state : States,
                 max_transitions : 0..MaxTransitions, churn_mult : ChurnMultipliers,
                 start_time : StartTimes, end_time : EndTimes,
                 transitions : {<<>>}, current_state : {"active"}, current_time : {0},
                 transition_index : {0}]

\* Lines 175-187: the initial record.
SimStart ==
    /\ call.fn = "simulate_entity_transitions"
    /\ call.state = "called"
    /\ call' = [call EXCEPT !.state = "looping",
                            !.current_state = call.initial_state,
                            !.current_time = call.start_time,
                            !.transitions = <<TransitionRecord(call.start_time, "None",
                                                               call.initial_state, 0)>>]
    /\ OnlyCallChanges

\* One iteration of the loop: rng.exponential gives the delay and rng.choice
\* a next state of positive probability.
SimStep ==
    /\ call.fn = "simulate_entity_transitions"
    /\ call.state = "looping"
    /\ LoopContinues(call.transition_index, call.max_transitions)
    /\ \E delay \in 0..MaxDelay :
          LET next_time == call.current_time + delay
          IN  IF Breaks(call, next_time)
              THEN call' = [call EXCEPT !.state = "returned"]
              ELSE \E next_state \in call.states[call.current_state].next :
                      call' = [call EXCEPT
                                  !.transition_index = @ + 1,
                                  !.transitions = Append(@, TransitionRecord(next_time,
                                                             call.current_state, next_state,
                                                             call.transition_index + 1)),
                                  !.current_state = next_state,
                                  !.current_time = next_time]
    /\ OnlyCallChanges

\* The loop condition fails: return transitions.
SimReturn ==
    /\ call.fn = "simulate_entity_transitions"
    /\ call.state = "looping"
    /\ ~LoopContinues(call.transition_index, call.max_transitions)
    /\ call' = [call EXCEPT !.state = "returned"]
    /\ OnlyCallChanges

StatesNext == SimStart \/ SimStep \/ SimReturn

\* The call runs on its own thread of control: a step that can be taken is taken.
SpecStates == StatesInit /\ [][StatesNext]_vars /\ WF_vars(StatesNext)

(***************************************************************************)
(* core/stage_utils.py: calculate_stage_progression followed by            *)
(* generate_stage_events on its result.  Rates and multipliers are in      *)
(* tenths, effective rates and draws in hundredths.                        *)
(***************************************************************************)

MaxStages == 3

\* stage["transition_rate"] of the stages after the first.
TransitionRates == {0, 5, 10}

\* stage_config["stages"]: the sequence of transition rates; the first stage's
\* rate is never read.
StageLists ==
    UNION {{<<10>> \o t : t \in [1..(n - 1) -> TransitionRates]} : n \in 1..MaxStages}

\* segment_variation[segment]["transition_multiplier"]; 10 without a segment.
TransitionMultiplier(segment) ==
    CASE segment = "vip" -> 13
      [] segment = "budget" -> 7
      [] OTHER -> 10

\* parent_df: the segment of each parent.
ParentFrames == {<<"none">>, <<"vip">>, <<"budget">>, <<"none", "vip">>, <<"budget", "none">>}

\* rng.random(), in [0, 1).
StageDraws == {0, 40, 99}

\* rng.exponential(...) hours after the parent's timestamp.
HoursOffsets == {0, 1}

\* Lines 85-86: min(1.0, base_rate * transition_multiplier).
EffectiveRate(base_rate, transition_multiplier) ==
    LET r == base_rate * transition_multiplier
    IN  IF r > 100 THEN 100 ELSE r

\* The else branch read as "continue": the next stage is tried.
AfterDropOffContinue(stage_idx, n_stages) == stage_idx + 1

\* Lines 91-93: break, no further stage is tried.
AfterDropOff(stage_idx, n_stages) == n_stages

\* range(final_stage_index).
EventStagesBelowFinal(final_stage_index) == 0..(final_stage_index - 1)

\* Line 145: range(final_stage_index + 1).
EventStages(final_stage_index) == 0..final_stage_index

StageInit ==
    /\ dataset = [refs |-> {}, dag |-> <<>>]
    /\ master_seed = 42
    /\ output_dir = FALSE
    /\ faker_state = [seed |-> 0, pos |-> 0]
    /\ files = {}
    /\ run = 1
    /\ first_result = NoResult
    /\ NewExecutor
    /\ call \in [fn : {"stage_events"}, state : {"progression"},
                 stages : StageLists, parent_df : ParentFrames,
                 timestamp_col : BOOLEAN,
                 parent_idx : {1}, stage_idx : {1}, current_stage_index : {0},
                 draws : {<<>>}, all_draws : {<<>>}, results : {<<>>},
                 row : {1}, event_stage : {0}, event_id : {1}, records : {<<>>}]

\* Lines 84-93: one roll of the dice for the parent at parent_idx.
StageDraw ==
    /\ call.fn = "stage_events"
    /\ call.state = "progression"
    /\ call.parent_idx <= Len(call.parent_df)
    /\ call.stage_idx < Len(call.stages)
    /\ \E draw \in StageDraws :
          LET rate == EffectiveRate(call.stages[call.stage_idx + 1],
                          TransitionMultiplier(call.parent_df[call.parent_idx]))
          IN  IF draw < rate
              THEN call' = [call EXCEPT !.current_stage_index = call.stage_idx,
                                        !.stage_idx = @ + 1,
                                        !.draws = Append(@, draw)]
              ELSE call' = [call EXCEPT !.stage_idx = AfterDropOff(@, Len(call.stages)),
                                        !.draws = Append(@, draw)]
    /\ OnlyCallChanges

\* Lines 95-99: the parent's result row, then the next parent.
StageResult ==
    /\ call.fn = "stage_events"
    /\ call.state = "progression"
    /\ call.parent_idx <= Len(call.parent_df)
    /\ call.stage_idx >= Len(call.stages)
    /\ call' = [call EXCEPT !.results = Append(@, call.current_stage_index),
                            !.all_draws = Append(@, call.draws),
                            !.parent_idx = @ + 1,
                            !.stage_idx = 1,
                            !.current_stage_index = 0,
                            !.draws = <<>>]
    /\ OnlyCallChanges

\* Line 101: the progression is returned and handed to generate_stage_events.
StageProgressionReturn ==
    /\ call.fn = "stage_events"
    /\ call.state = "progression"
    /\ call.parent_idx > Len(call.parent_df)
    /\ call' = [call EXCEPT !.state = "events"]
    /\ OnlyCallChanges

\* Lines 145-173: one event record.
StageEvent ==
    /\ call.fn = "stage_events"
    /\ call.state = "events"
    /\ call.row <= Len(call.results)
    /\ call.event_stage \in EventStages(call.results[call.row])
    /\ \E hours_offset \in IF call.timestamp_col /\ call.event_stage > 0
                           THEN HoursOffsets ELSE {0} :
          call' = [call EXCEPT
                      !.records = Append(@, [event_id |-> call.event_id,
                                             parent_index |-> call.row,
                                             stage_index |-> call.event_stage,
                                             timestamp |-> IF call.timestamp_col
                                                           THEN hours_offset ELSE None]),
                      !.event_id = @ + 1,
                      !.event_stage = @ + 1]
    /\ OnlyCallChanges

\* Line 140: the next row of stage_progression.
StageNextRow ==
    /\ call.fn = "stage_events"
    /\ call.state = "events"
    /\ call.row <= Len(call.results)
    /\ call.event_stage \notin EventStages(call.results[call.row])
    /\ call' = [call EXCEPT !.row = @ + 1, !.event_stage = 0]
    /\ OnlyCallChanges

\* Line 175.
StageEventsReturn ==
    /\ call.fn = "stage_events"
    /\ call.state = "events"
    /\ call.row > Len(call.results)
    /\ call' = [call EXCEPT !.state = "returned"]
    /\ OnlyCallChanges

StageNext ==
    \/ StageDraw
    \/ StageResult
    \/ StageProgressionReturn
    \/ StageEvent
    \/ StageNextRow
    \/ StageEventsReturn

SpecStage == StageInit /\ [][StageNext]_vars

(***************************************************************************)
(* core/attribution_chain_utils.py: generate_attribution_chains, one step  *)
(* per conversion.  Days are in hundredths of a day; a weight is a         *)
(* multiple of 1/Unit, or NaN.                                             *)
(***************************************************************************)

MaxTouches == 2

\* The float 1.0 in fixed point.
Unit == 1000000

\* What 0.0 / 0.0 gives.
NaN == -2

\* Every 2.0 ** -k with k above this exponent is 0.0 in float64.
MinSubnormalExp == 1074

\* The scale of the powers of two before they are normalised.
RawBits == 2

AttributionModels == {"linear", "first_touch", "last_touch", "time_decay"}

\* time_window_days: 30 days.
TimeWindowDays == 3000

\* time_decay_halflife_days: not given, or 0.01 days.
HalfLives == {None, 1}

\* rng.exponential(time_window_days / 3): 0 days, or 45 days, beyond the window.
DaysBeforeDraws == {0, 4500}

Channels == {"email", "social"}

\* conversion_df: the conversion_time of each conversion.
ConversionFrames == {<<10000>>, <<10000, 500>>}

\* np.clip(days_before, 0, time_window_days), one element.
Clip(x, lo, hi) == IF x < lo THEN lo ELSE IF x > hi THEN hi ELSE x

\* np.sort: the ascending arrangement of a sequence.
SortAscending(seq) ==
    CHOOSE t \in [DOMAIN seq -> Range(seq)] :
        /\ \A v \in Range(seq) :
              Cardinality({i \in DOMAIN seq : t[i] = v}) =
              Cardinality({i \in DOMAIN seq : seq[i] = v})
        /\ \A i \in DOMAIN seq : i < Len(seq) => t[i] <= t[i + 1]

Reverse(seq) == [i \in DOMAIN seq |-> seq[Len(seq) + 1 - i]]

\* np.sort(days_before) without the [::-1].
SortedDaysBeforeAscending(days_before, window) ==
    SortAscending([i \in DOMAIN days_before |-> Clip(days_before[i], 0, window)])

\* Lines 60-61: clip, then sort descending, the oldest touchpoint first.
SortedDaysBefore(days_before, window) ==
    Reverse(SortAscending([i \in DOMAIN days_before |-> Clip(days_before[i], 0, window)]))

\* np.power(2.0, -k) scaled by 2^RawBits, for the exponents that occur.
Pow2Neg(k) ==
    CASE k <= RawBits -> 2 ^ (RawBits - k)
      [] k > MinSubnormalExp -> 0

\* Lines 100-147.
CalculateAttributionWeights(n_touches, model, days_before, halflife_days) ==
    CASE model = "linear" -> [i \in 1..n_touches |-> Unit \div n_touches]
      [] model = "first_touch" -> [i \in 1..n_touches |-> IF i = 1 THEN Unit ELSE 0]
      [] model = "last_touch" -> [i \in 1..n_touches |-> IF i = n_touches THEN Unit ELSE 0]
      [] model = "time_decay" ->
            LET raw == [i \in 1..n_touches |-> Pow2Neg(days_before[i] \div halflife_days)]
                total == Sum(raw)
            IN  [i \in 1..n_touches |->
                    IF total = 0 THEN NaN ELSE (raw[i] * Unit) \div total]

\* Line 79: time_decay_halflife_days or time_window_days / 2.
HalflifeDays(time_decay_halflife_days, window) ==
    IF time_decay_halflife_days = None THEN window \div 2 ELSE time_decay_halflife_days

AttributionInit ==
    /\ dataset = [refs |-> {}, dag |-> <<>>]
    /\ master_seed = 42
    /\ output_dir = FALSE
    /\ faker_state = [seed |-> 0, pos |-> 0]
    /\ files = {}
    /\ run = 1
    /\ first_result = NoResult
    /\ NewExecutor
    /\ call \in {c \in [fn : {"generate_attribution_chains"}, state : {"called"},
                        conversion_df : ConversionFrames,
                        min_touches : 1..MaxTouches, max_touches : 1..MaxTouches,
                        attribution_model : AttributionModels,
                        time_decay_halflife_days : HalfLives,
                        conversion_idx : {1}, touchpoint_id : {1}, touchpoints : {<<>>}] :
                    c.min_touches <= c.max_touches}

\* Lines 50-95: the touchpoints of one conversion.
ConversionChain ==
    /\ call.fn = "generate_attribution_chains"
    /\ call.state = "called"
    /\ call.conversion_idx <= Len(call.conversion_df)
    /\ \E n_touches \in call.min_touches..call.max_touches :
       \E draws \in [1..n_touches -> DaysBeforeDraws] :
       \E channel \in [1..n_touches -> Channels] :
          LET conversion_time == call.conversion_df[call.conversion_idx]
              days_before == SortedDaysBefore(draws, TimeWindowDays)
              weights == CalculateAttributionWeights(n_touches, call.attribution_model,
                             days_before,
                             HalflifeDays(call.time_decay_halflife_days, TimeWindowDays))
              chain == [i \in 1..n_touches |->
                           [touchpoint_id |-> call.touchpoint_id + i - 1,
                            conversion_id |-> call.conversion_idx,
                            channel |-> channel[i],
                            timestamp |-> conversion_time - days_before[i],
                            position |-> i,
                            attribution_weight |-> weights[i]]]
          IN  call' = [call EXCEPT !.touchpoints = @ \o chain,
                                   !.touchpoint_id = @ + n_touches,
                                   !.conversion_idx = @ + 1]
    /\ OnlyCallChanges

\* Line 97.
AttributionReturn ==
    /\ call.fn = "generate_attribution_chains"
    /\ call.state = "called"
    /\ call.conversion_idx > Len(call.conversion_df)
    /\ call' = [call EXCEPT !.state = "returned"]
    /\ OnlyCallChanges

AttributionNext == ConversionChain \/ AttributionReturn

SpecAttribution == AttributionInit /\ [][AttributionNext]_vars

(***************************************************************************)
(* core/seed.py: derive_seed called on two scope tuples.  A string part is *)
(* the sequence of its character codes, an int part a number.              *)
(***************************************************************************)

MaxParts == 2
MaxPartLen == 2

\* The characters of the modelled string parts: "a", "1" and "|".
PartChars == {97, 49, 124}

StrParts == UNION {[1..n -> PartChars] : n \in 1..MaxPartLen}

\* The int parts: master seeds, parent keys, row indexes.
IntParts == {1, 11}

\* A part: v holds the characters of a str, or the one number of an int.
ScopeParts == [kind : {"str"}, v : StrParts] \cup [kind : {"int"}, v : {<<i>> : i \in IntParts}]

ScopeTuples == UNION {[1..n -> ScopeParts] : n \in 1..MaxParts}

\* str(p) of one part.
Str(p) == IF p.kind = "int" THEN Digits(p.v[1]) ELSE p.v

\* Line 26: the string that is hashed.
Combined(parts) == Join([i \in DOMAIN parts |-> Str(parts[i])])

SeedInit ==
    /\ dataset = [refs |-> {}, dag |-> <<>>]
    /\ master_seed = 42
    /\ output_dir = FALSE
    /\ faker_state = [seed |-> 0, pos |-> 0]
    /\ files = {}
    /\ run = 1
    /\ first_result = NoResult
    /\ NewExecutor
    /\ call \in [fn : {"derive_seed"}, state : {"called"},
                 parts1 : ScopeTuples, parts2 : ScopeTuples,
                 combined1 : {<<>>}, combined2 : {<<>>},
                 seed1 : {<<>>}, seed2 : {<<>>}]

\* derive_seed(*parts1) and derive_seed(*parts2).
DeriveSeedCalls ==
    /\ call.fn = "derive_seed"
    /\ call.state = "called"
    /\ call' = [call EXCEPT !.state = "returned",
                            !.combined1 = Combined(call.parts1),
                            !.combined2 = Combined(call.parts2),
                            !.seed1 = DeriveSeed([i \in DOMAIN call.parts1 |-> Str(call.parts1[i])]),
                            !.seed2 = DeriveSeed([i \in DOMAIN call.parts2 |-> Str(call.parts2[i])])]
    /\ OnlyCallChanges

SeedNext == DeriveSeedCalls

SpecSeed == SeedInit /\ [][SeedNext]_vars

(***************************************************************************)
(* core/modifiers.py: apply_modifiers on one numeric value, one step per   *)
(* modifier of the list.                                                   *)
(***************************************************************************)

MaxModifiers == 3

\* modifier.transform; "unknown_modifier" is accepted in a dict modifier only.
Transforms == {"multiply", "add", "clamp", "seasonality", "effect", "unknown_modifier"}

\* The context DataFrame: None, without the columns a modifier looks for,
\* with a datetime column, or with a datetime and an _effect_ column.
Contexts == {"None", "plain", "datetime", "datetime_effect"}

InputValues == {1, 20}

\* Lines 58-82 and 87-103: whether the branch of the transform ends in "skipping".
Skips(transform, context) ==
    CASE transform = "seasonality" -> context \in {"None", "plain"}
      [] transform = "effect" -> context # "datetime_effect"
      [] transform = "unknown_modifier" -> TRUE
      [] OTHER -> FALSE

\* modify_multiply with factor 2, modify_add with value 10, modify_clamp with
\* [0, 25], modify_seasonality with weight 3, modify_effect with multiplier 5.
Modify(transform, v) ==
    CASE transform = "multiply" -> v * 2
      [] transform = "add" -> v + 10
      [] transform = "clamp" -> IF v < 0 THEN 0 ELSE IF v > 25 THEN 25 ELSE v
      [] transform = "seasonality" -> v * 3
      [] transform = "effect" -> v * 5

\* The loop taking the modifiers from the end of the list.
ModifierAtReversed(modifiers, i) == modifiers[Len(modifiers) + 1 - i]

\* Line 33: for modifier in modifiers.
ModifierAt(modifiers, i) == modifiers[i]

ModifiersInit ==
    /\ dataset = [refs |-> {}, dag |-> <<>>]
    /\ master_seed = 42
    /\ output_dir = FALSE
    /\ faker_state = [seed |-> 0, pos |-> 0]
    /\ files = {}
    /\ run = 1
    /\ first_result = NoResult
    /\ NewExecutor
    /\ call \in [fn : {"apply_modifiers"}, state : {"called"},
                 values : InputValues,
                 modifiers : UNION {[1..n -> Transforms] : n \in 0..MaxModifiers},
                 context : Contexts,
                 result : {0}, next : {1}, applied : {<<>>}]

\* Line 31: result = values.copy().
ModifiersStart ==
    /\ call.fn = "apply_modifiers"
    /\ call.state = "called"
    /\ call' = [call EXCEPT !.state = "looping", !.result = call.values]
    /\ OnlyCallChanges

\* Lines 33-133: one iteration of the loop.
ModifierStep ==
    /\ call.fn = "apply_modifiers"
    /\ call.state = "looping"
    /\ call.next <= Len(call.modifiers)
    /\ LET transform == ModifierAt(call.modifiers, call.next)
       IN  IF Skips(transform, call.context)
           THEN call' = [call EXCEPT !.next = @ + 1]
           ELSE call' = [call EXCEPT !.next = @ + 1,
                                     !.result = Modify(transform, @),
                                     !.applied = Append(@, call.next)]
    /\ OnlyCallChanges

\* Line 135: return result.
ModifiersReturn ==
    /\ call.fn = "apply_modifiers"
    /\ call.state = "looping"
    /\ call.next > Len(call.modifiers)
    /\ call' = [call EXCEPT !.state = "returned"]
    /\ OnlyCallChanges

ModifiersNext == ModifiersStart \/ ModifierStep \/ ModifiersReturn

SpecModifiers == ModifiersInit /\ [][ModifiersNext]_vars

(***************************************************************************)
(* core/modifiers.py: modify_map_values, one step per item of the mapping. *)
(***************************************************************************)

MaxValues == 2
MaxMappingItems == 2

Categories == {"A", "B", "C"}

\* mapping.items(): the items in the dict's order, no key twice.
Mappings ==
    UNION {{m \in [1..n -> [old : Categories, new : Categories]] :
               \A i, j \in 1..n : i # j => m[i].old # m[j].old} : n \in 0..MaxMappingItems}

MapValuesInit ==
    /\ dataset = [refs |-> {}, dag |-> <<>>]
    /\ master_seed = 42
    /\ output_dir = FALSE
    /\ faker_state = [seed |-> 0, pos |-> 0]
    /\ files = {}
    /\ run = 1
    /\ first_result = NoResult
    /\ NewExecutor
    /\ call \in [fn : {"modify_map_values"}, state : {"called"},
                 values : UNION {[1..n -> Categories] : n \in 1..MaxValues},
                 mapping : Mappings,
                 result : {<<>>}, next : {1}]

\* Line 230: result = values.copy().
MapValuesStart ==
    /\ call.fn = "modify_map_values"
    /\ call.state = "called"
    /\ call' = [call EXCEPT !.state = "looping", !.result = call.values]
    /\ OnlyCallChanges

\* Lines 232-233: result[result == old_val] = new_val.
MapValuesItem ==
    /\ call.fn = "modify_map_values"
    /\ call.state = "looping"
    /\ call.next <= Len(call.mapping)
    /\ LET item == call.mapping[call.next]
       IN  call' = [call EXCEPT
                       !.next = @ + 1,
                       !.result = [i \in DOMAIN call.result |->
                                      IF call.result[i] = item.old THEN item.new
                                      ELSE call.result[i]]]
    /\ OnlyCallChanges

\* Line 235: return result.
MapValuesReturn ==
    /\ call.fn = "modify_map_values"
    /\ call.state = "looping"
    /\ call.next > Len(call.mapping)
    /\ call' = [call EXCEPT !.state = "returned"]
    /\ OnlyCallChanges

MapValuesNext == MapValuesStart \/ MapValuesItem \/ MapValuesReturn

SpecMapValues == MapValuesInit /\ [][MapValuesNext]_vars

(***************************************************************************)
(* core/generators/registry.py: LookupResolver.lookup with a join          *)
(* condition.  A source row is its join key and its referenced column.     *)
(***************************************************************************)

MaxSourceRows == 2
MaxContextRows == 2

JoinKeys == {1, 2}
SourceValues == {"x", "y"}

\* NaN, the value of an unmatched row.
Null == "null"

\* Lines 106-111: parent_data[[local_col]].merge(source_df[[source_col,
\* column]], how="left"): for each left row in order, one row per matching
\* right row in the right table's order, or one row of nulls.
LeftMerge(left, right) ==
    Flatten([i \in DOMAIN left |->
                LET matches == SelectSeq(right, LAMBDA r : r.key = left[i])
                IN  IF matches = <<>> THEN <<[key |-> left[i], column |-> Null]>>
                    ELSE matches])

LookupJoinInit ==
    /\ dataset = [refs |-> {}, dag |-> <<>>]
    /\ master_seed = 42
    /\ output_dir = FALSE
    /\ faker_state = [seed |-> 0, pos |-> 0]
    /\ files = {}
    /\ run = 1
    /\ first_result = NoResult
    /\ NewExecutor
    /\ call \in [fn : {"lookup"}, state : {"called"},
                 source_df : UNION {[1..n -> [key : JoinKeys, column : SourceValues]] :
                                       n \in 0..MaxSourceRows},
                 parent_data : UNION {[1..n -> JoinKeys] : n \in 1..MaxContextRows},
                 result : {<<>>}]

\* Lines 85-113: the join-based lookup.
LookupJoinCall ==
    /\ call.fn = "lookup"
    /\ call.state = "called"
    /\ LET merged == LeftMerge(call.parent_data, call.source_df)
       IN  call' = [call EXCEPT !.state = "returned",
                                !.result = [i \in DOMAIN merged |-> merged[i].column]]
    /\ OnlyCallChanges

LookupJoinNext == LookupJoinCall

SpecLookupJoin == LookupJoinInit /\ [][LookupJoinNext]_vars

(***************************************************************************)
(* core/executor.py: the fanout of generate_fact (lines 218-247) with a    *)
(* table-level effect, and core/modifiers.py: modify_effect on rows with   *)
(* the same keys and timestamps.  Effect values are in tenths.             *)
(***************************************************************************)

MaxFactParents == 2
MaxEffectRows == 2

\* A parent row: its join key, its timestamp and its segment column.
ParentRows == [key : {1, 2}, ts : {0, 2}, segment : {"vip", "budget"}]

\* An effect row: its join key, its window and its field.
EffectRows == [key : {1, 2}, start : {0}, end : {0, 2}, field : {5, 20}]

\* node.fanout: distribution, min and max (lambda is Lambda).
Fanouts == {[distribution |-> "poisson", min |-> 0, max |-> 2],
            [distribution |-> "uniform", min |-> 1, max |-> 2],
            [distribution |-> "poisson", min |-> 1, max |-> 1]}

\* The args of the effect modifier: whether the effect table has the field
\* column, map.op and map.default.
EffectArgs == [has_field : BOOLEAN, op : {"mul", "add"}, default : {0, 10}]

\* No table-level modifier declared.
NoEffect == [declared |-> FALSE, effect_df |-> <<>>,
             args |-> [has_field |-> TRUE, op |-> "mul", default |-> 10]]

Effects ==
    {NoEffect} \cup [declared : {TRUE},
                     effect_df : UNION {[1..n -> EffectRows] : n \in 0..MaxEffectRows},
                     args : EffectArgs]

\* The effect rows that match the row's join key and whose window contains
\* its timestamp (executor.py:425-443, modifiers.py:389-402).
MatchingEffects(effect_df, row) ==
    SelectSeq(effect_df, LAMBDA e : e.key = row.key /\ e.start <= row.ts /\ e.end >= row.ts)

\* executor.py:445-453: the effect value of a parent row.
TableEffectValue(effect_df, args, row) ==
    LET matching == MatchingEffects(effect_df, row)
    IN  IF Len(matching) > 0
        THEN IF args.has_field THEN matching[1].field ELSE 10
        ELSE args.default

\* modifiers.py:380-407: the effect value of a context row.
ColumnEffectValue(effect_df, args, row) ==
    LET matching == MatchingEffects(effect_df, row)
    IN  IF Len(matching) > 0 /\ args.has_field THEN matching[1].field ELSE args.default

\* np.round of a number of tenths: half to even.
RoundTenths(t) ==
    LET q == t \div 10
        r == t % 10
    IN  IF r < 5 THEN q
        ELSE IF r > 5 THEN q + 1
        ELSE IF q % 2 = 0 THEN q ELSE q + 1

\* executor.py:455-461: one count scaled by the effect value, rounded.
ScaleCount(count, value, op) ==
    RoundTenths(IF op = "mul" THEN count * value ELSE 10 * count + value)

\* _apply_table_effects_to_fanout for the declared effect.
ApplyTableEffect(counts, parent_df, effect) ==
    [i \in DOMAIN counts |->
        ScaleCount(counts[i],
                   TableEffectValue(effect.effect_df, effect.args, parent_df[i]),
                   effect.args.op)]

FactFanoutInit ==
    /\ dataset = [refs |-> {}, dag |-> <<>>]
    /\ master_seed = 42
    /\ output_dir = FALSE
    /\ faker_state = [seed |-> 0, pos |-> 0]
    /\ files = {}
    /\ run = 1
    /\ first_result = NoResult
    /\ NewExecutor
    /\ call \in [fn : {"generate_fact_fanout"}, state : {"called"},
                 parent_df : UNION {[1..n -> ParentRows] : n \in 1..MaxFactParents},
                 fanout : Fanouts, effect : Effects,
                 sampled : {<<>>}, fanout_counts : {<<>>}, table_values : {<<>>},
                 parent_indices : {<<>>}, column_values : {<<>>}]

\* generate_fact lines 218-247: sample the fanout, scale it by the table-level
\* effect, expand the parent rows.
FactFanout ==
    /\ call.fn = "generate_fact_fanout"
    /\ call.state = "called"
    /\ \E r \in SampleFanout(call.fanout.distribution, Len(call.parent_df), Lambda,
                             call.fanout.min, call.fanout.max) :
          /\ ~r.raised
          /\ LET counts == IF call.effect.declared
                           THEN ApplyTableEffect(r.counts, call.parent_df, call.effect)
                           ELSE r.counts
             IN  call' = [call EXCEPT
                             !.state = "expanded",
                             !.sampled = r.counts,
                             !.fanout_counts = counts,
                             !.table_values =
                                 IF call.effect.declared
                                 THEN [i \in DOMAIN call.parent_df |->
                                          TableEffectValue(call.effect.effect_df,
                                                           call.effect.args, call.parent_df[i])]
                                 ELSE <<>>,
                             !.parent_indices = RepeatFrom(counts, 1)]
    /\ OnlyCallChanges

\* modify_effect with the same effect on a context holding the parent rows'
\* keys and timestamps.
ModifyEffectCall ==
    /\ call.fn = "generate_fact_fanout"
    /\ call.state = "expanded"
    /\ call.effect.declared
    /\ call' = [call EXCEPT
                   !.state = "modified",
                   !.column_values = [i \in DOMAIN call.parent_df |->
                                         ColumnEffectValue(call.effect.effect_df,
                                                           call.effect.args, call.parent_df[i])]]
    /\ OnlyCallChanges

FactFanoutNext == FactFanout \/ ModifyEffectCall

SpecFactFanout == FactFanoutInit /\ [][FactFanoutNext]_vars

(***************************************************************************)
(* Properties of execute.                                                  *)
(***************************************************************************)

\* What a node depends on, read off the schema: its declared parents and the
\* tables its lookup columns read other than its own.
DependsOn(n) ==
    {r.target : r \in {x \in dataset.refs : x.node = n /\ x.slot = "parent"}}
        \cup {r.target : r \in {x \in dataset.refs :
                                   x.node = n /\ x.slot = "lookup" /\ x.target # n}}

\* C1: in execute, under every ordering build_dag accepted, a node's
\* generation begins only after the tables of its declared parents and of its
\* cross-table lookup sources are registered, and a complete table of a node
\* is stored only after the node's generation completed.
C1Ordering ==
    /\ \A n \in hist.begun : DependsOn(n) \subseteq hist.seen[n]
    /\ \A n \in Ids : (generated_data[n].stage = "complete" \/ data_cache[n].stage = "complete")
                         => n \in hist.completed

\* C2: when the run with a level's nodes taken in any order ends, it ends as
\* the run in listed order ends, with the same table for every node.
C2AnyOrderSameTables ==
    pc \in {"done", "error"} =>
        \E l \in {RunListed(dataset, master_seed, Flatten(dag.levels), 1,
                            [n \in Ids |-> NoTable], [n \in Ids |-> NoTable],
                            [seed |-> 0, pos |-> 0])} :
            IF pc = "done" THEN ~l.err /\ generated_data = l.gd ELSE l.err

\* The references the dependency graph is inferred from, read off the schema.
RefEdges(ds) ==
    {<<r.target, r.node>> : r \in {x \in ds.refs :
        \/ x.slot = "parent"
        \/ x.slot \in {"lookup", "choices_ref"} /\ x.target # x.node}}

\* m is reachable from n along one or more references.
Reaches(ds, n, m) ==
    \E path \in DistinctSeqs :
        /\ Len(path) >= 1
        /\ <<n, path[1]>> \in RefEdges(ds)
        /\ \A i \in 1..(Len(path) - 1) : <<path[i], path[i + 1]>> \in RefEdges(ds)
        /\ path[Len(path)] = m

OnCycle(ds, n) == \E m \in Ids \ {n} : Reaches(ds, n, m) /\ Reaches(ds, m, n)

\* C5: a cycle through two or more nodes in the inferred graph makes the
\* construction of the executor fail with the circular-dependency error, the
\* error lists every node on a cycle, and no node is generated or registered.
C5CycleFailsFast ==
    (pc # "new" /\ dataset.dag = <<>> /\ \E n \in Ids : OnCycle(dataset, n)) =>
        /\ pc = "build_error"
        /\ dag.error = "circular"
        /\ \A n \in Ids : OnCycle(dataset, n) => \E c \in dag.cycles : n \in Range(c)
        /\ hist.begun = {}
        /\ \A n \in Ids : generated_data[n] = NoTable /\ data_cache[n] = NoTable

C5Witness ==
    /\ pc = "build_error"
    /\ dag.error = "circular"
    /\ \E c \in dag.cycles : Len(c) = 2

\* The number of times the table of n may be stored in a run.
Writes(n) == IF Ref("lookup", n, n) \in dataset.refs THEN 2 ELSE 1

C6Counts ==
    \A n \in Ids :
        /\ hist.gd_writes[n] <= Writes(n)
        /\ hist.cache_writes[n] <= Writes(n)
        /\ pc = "done" => hist.gd_writes[n] = Writes(n) /\ hist.cache_writes[n] = Writes(n)
        /\ generated_data[n].stage = "partial" => Writes(n) = 2 /\ hist.gd_writes[n] = 1
        /\ data_cache[n].stage = "partial" => Writes(n) = 2 /\ hist.cache_writes[n] = 1

C6Stable ==
    \A n \in Ids :
        /\ generated_data[n].stage = "complete" => generated_data'[n] = generated_data[n]
        /\ data_cache[n].stage = "complete" => data_cache'[n] = data_cache[n]
        /\ generated_data[n].stage = "partial" => generated_data'[n].stage # "none"
        /\ data_cache[n].stage = "partial" => data_cache'[n].stage # "none"

\* C6: in a run, the table of a node is stored once in generated_data and once
\* in the lookup resolver and is never replaced or changed afterwards, except
\* that a node with a lookup of its own table has its partial table stored
\* once and replaced once by the complete table.
C6WriteOnce == []C6Counts /\ [][C6Stable]_vars

C6Witness ==
    /\ pc = "done"
    /\ \E n \in Ids : hist.gd_writes[n] = 2 /\ generated_data[n].stage = "complete"
    /\ \E n \in Ids : hist.gd_writes[n] = 1

\* C7: once generating a node raised, no later node is generated and
\* write_output is never called: no table file and no metadata file exists.
C7ErrorAborts ==
    hist.raised => pc = "error" /\ hist.after_raise = {} /\ files = {}

C7Witness ==
    /\ hist.raised
    /\ hist.registered # {}
    /\ \E n \in Ids : n \notin hist.begun

\* C8: the second of two generate_dataset calls with the same dataset and
\* master seed ends as the first did, with identical tables.
C8SameTables ==
    (run = 2 /\ pc \in {"done", "error", "build_error"}) =>
        IF pc = "done" THEN first_result = Returned(generated_data)
        ELSE first_result = RaisedResult

C8Witness ==
    /\ run = 2
    /\ pc = "done"
    /\ \E n \in Ids : HasColumn(generated_data[n], "name")
    /\ \E n \in Ids : Kind(dataset, n) = "fact" /\ generated_data[n].rows > 0

(***************************************************************************)
(* Properties of build_dag.                                                *)
(***************************************************************************)

Acyclic(ds) == \A n \in Ids : ~Reaches(ds, n, n)

\* Every node id is listed exactly once in the levels.
EachOnce(levels) ==
    \A n \in Ids : Cardinality({i \in DOMAIN Flatten(levels) : Flatten(levels)[i] = n}) = 1

\* Every edge dep -> node has dep in a level strictly before each level of node.
StrictlyEarlier(levels, edges) ==
    \A e \in edges : \A j \in DOMAIN levels :
        e[2] \in Range(levels[j]) => \E i \in 1..(j - 1) : e[1] \in Range(levels[i])

\* C3: without an explicit dag, when the parent, cross-table lookup and
\* choices_ref references are acyclic, build_dag returns levels that list
\* every node id exactly once and put every node a node depends on in a
\* strictly earlier level.
C3InferredLevels ==
    (pc # "new" /\ dataset.dag = <<>> /\ Acyclic(dataset)) =>
        /\ pc = "built"
        /\ dag.ok
        /\ EachOnce(dag.levels)
        /\ StrictlyEarlier(dag.levels, RefEdges(dataset))

C3Witness ==
    /\ pc = "built"
    /\ dataset.dag = <<>>
    /\ Len(dag.levels) = 3
    /\ \E r \in dataset.refs : r.slot = "choices_ref"
    /\ \E r \in dataset.refs : r.slot # "choices_ref"

ParentEdges(ds) == {<<r.target, r.node>> : r \in {x \in ds.refs : x.slot = "parent"}}

\* C4: with an explicit dag, build_dag returns only if every node id appears
\* exactly once and every declared parent is in a strictly earlier level than
\* its node, and what it returns is the supplied levels.
C4ExplicitValidated ==
    (pc = "built" /\ dataset.dag # <<>>) =>
        /\ EachOnce(dataset.dag)
        /\ StrictlyEarlier(dataset.dag, ParentEdges(dataset))
        /\ dag.levels = dataset.dag

(***************************************************************************)
(* Properties of sample_fanout.                                            *)
(***************************************************************************)

\* C10: every count sample_fanout returns is at least min when min is
\* declared and at most max when max is declared, for both distributions.
C10CountsWithinBounds ==
    (call.fn = "sample_fanout" /\ call.state = "returned" /\ ~call.raised) =>
        \A i \in DOMAIN call.counts :
            /\ call.min_val # None => call.counts[i] >= call.min_val
            /\ call.max_val # None => call.counts[i] <= call.max_val

(***************************************************************************)
(* Properties of generate_fact.                                            *)
(***************************************************************************)

\* The parent row that owns child row k when parent row i yields counts[i]
\* consecutive child rows, in parent order.
Owner(counts, k) ==
    CHOOSE i \in DOMAIN counts :
        /\ Sum(SubSeq(counts, 1, i - 1)) < k
        /\ k <= Sum(SubSeq(counts, 1, i))

Returned9 == call.fn = "generate_fact" /\ call.state = "returned"

\* C9 as stated: parent row i yields exactly counts[i] consecutive child rows
\* and each lookup column of a primary-parent column holds, in every child
\* row, the value of that column in the child's own parent row.
C9ParentValueIdentity ==
    Returned9 =>
        \A c \in LookupColumns :
            /\ Len(call.child[c]) = Sum(call.counts)
            /\ \A k \in DOMAIN call.child[c] :
                  call.child[c][k] = call.parent[Owner(call.counts, k)][call.cols[c].from]

\* What a column's own modifiers and declared type make of a parent value.
Transformed(v, col) ==
    LET m == IF col.modifiers = <<>> THEN v
             ELSE IF col.modifiers = <<Multiply>> THEN 2 * v
             ELSE IF col.modifiers = <<Add>> THEN v + 10
             ELSE 2 * v + 10
    IN  IF col.type = "float" THEN m
        ELSE IF col.type = "int" THEN m - (m % 10)
        ELSE IF m = 0 THEN 0 ELSE 10

\* C9, amended: parent row i yields exactly counts[i] consecutive child rows,
\* and each lookup column of a primary-parent column holds, in every child
\* row, the value of that column in the child's own parent row after the
\* column's own modifiers and the cast to its declared type: the parent's
\* value itself when there are no modifiers and the cast changes nothing.
C9ParentValueTransformed ==
    Returned9 =>
        \A c \in LookupColumns :
            /\ Len(call.child[c]) = Sum(call.counts)
            /\ \A k \in DOMAIN call.child[c] :
                  LET v == call.parent[Owner(call.counts, k)][call.cols[c].from]
                  IN  /\ call.child[c][k] = Transformed(v, call.cols[c])
                      /\ (call.cols[c].modifiers = <<>> /\ Transformed(v, call.cols[c]) = v)
                            => call.child[c][k] = v

C9Witness ==
    /\ Returned9
    /\ Len(call.parent) = 2
    /\ call.counts = <<2, 1>>
    /\ call.parent[1].score # call.parent[2].score
    /\ call.cols["parent_id"] = [from |-> "id", type |-> "int", modifiers |-> <<>>]
    /\ call.cols["parent_score"].from = "score"
    /\ call.cols["parent_score"].modifiers # <<>>
    /\ call.child["parent_id"] = <<10, 10, 20>>

(***************************************************************************)
(* Properties of self-referential lookups.                                 *)
(***************************************************************************)

\* Node n declares a lookup of its own "id" column and nothing else that
\* could make its generation raise.
OnlySelfLookup(n) ==
    /\ Ref("lookup", n, n) \in dataset.refs
    /\ {r \in dataset.refs : r.node = n} \subseteq {Ref("lookup", n, n), Ref("vocab", n, n)}

\* C11: for an entity or vocab node with a lookup of a non-lookup column of
\* its own table, generation succeeds, and the self-referential column is
\* generated after the node's other columns and after the partial table was
\* stored.
C11SelfLookupSucceeds ==
    \A n \in Ids :
        (OnlySelfLookup(n) /\ n \in hist.begun) =>
            /\ phase[n] = "second" \/ n \in hist.completed
            /\ HasColumn(data[n], LkName(n)) =>
                  /\ hist.gd_writes[n] >= 1 /\ hist.cache_writes[n] >= 1
                  /\ \A c \in {"id", "ts", "val", "name"} : HasColumn(data[n], c)

(***************************************************************************)
(* Properties of preflight_validate.                                       *)
(***************************************************************************)

PreflightOver == call.fn = "preflight_validate" /\ call.state \in {"raised", "returned"}

C13ValidatedNeverRejected ==
    call.fn = "validate_schema" => call.state # "generation_raised"

(***************************************************************************)
(* Properties of _simulate_entity_transitions.                             *)
(***************************************************************************)

Simulating == call.fn = "simulate_entity_transitions" /\ call.state # "called"

\* C14: once a record whose to_state is terminal was emitted, the initial
\* record included, no further record is emitted for the entity.
C14NothingAfterTerminal ==
    Simulating =>
        \A i \in DOMAIN call.transitions :
            call.states[call.transitions[i].to_state].terminal => i = Len(call.transitions)

C14Witness ==
    /\ Simulating
    /\ call.state = "returned"
    /\ Len(call.transitions) = 2
    /\ call.transition_index < call.max_transitions
    /\ call.states[call.transitions[2].to_state].terminal
    /\ call.states[call.transitions[2].to_state].prob > 0
    /\ call.states[call.transitions[2].to_state].next # {}
    /\ call.churn_mult > 0
    /\ call.end_time = None

\* C15: when timeframe_end is given, every record has
\* transition_time <= timeframe_end.
C15WithinTimeframe ==
    (Simulating /\ call.end_time # None) =>
        \A i \in DOMAIN call.transitions :
            call.transitions[i].transition_time <= call.end_time

C16Capped ==
    Simulating =>
        /\ call.transition_index <= call.max_transitions
        /\ Len(call.transitions) = call.transition_index + 1
        /\ Len(call.transitions) <= call.max_transitions + 1

\* C16: for every entity the simulation ends, having emitted at most
\* max_transitions transitions, the initial record not counted, also on a
\* cyclic state graph without timeframe end.
C16TerminatesWithinCap ==
    /\ []C16Capped
    /\ <>(call.state = "returned")

C16Witness ==
    /\ call.state = "returned"
    /\ call.end_time = None
    /\ call.max_transitions = MaxTransitions
    /\ Len(call.transitions) = MaxTransitions + 1
    /\ \A s \in States : ~call.states[s].terminal /\ call.states[s].next = {s}

(***************************************************************************)
(* Properties of calculate_stage_progression and generate_stage_events.    *)
(***************************************************************************)

\* Whether the draw made for stage j (1-based among the draws) of parent p succeeded.
Succeeded(p, j) ==
    call.all_draws[p][j] < EffectiveRate(call.stages[j + 1],
                                         TransitionMultiplier(call.parent_df[p]))

\* C17: every entity reaches stage 0; its final stage index is k exactly when
\* the draws for stages 1..k all succeeded and k is the last stage or the
\* draw for stage k+1 failed; no draw is made after the first failed one.
C17FinalStageIsFirstFailure ==
    call.fn = "stage_events" =>
        \A p \in DOMAIN call.results :
            LET k == call.results[p]
                d == call.all_draws[p]
                last == Len(call.stages) - 1
            IN  /\ k \in 0..last
                /\ \A j \in 1..k : Succeeded(p, j)
                /\ IF k = last THEN Len(d) = k
                               ELSE Len(d) = k + 1 /\ ~Succeeded(p, k + 1)

C17Witness ==
    /\ call.fn = "stage_events"
    /\ Len(call.results) = 2
    /\ Len(call.stages) = MaxStages
    /\ call.results[1] = 1
    /\ call.results[2] = MaxStages - 1
    /\ call.all_draws[1][1] = 40

\* C18: for each entity exactly one event per stage index 0..final, in
\* ascending order and none beyond; the number of entities with an event at
\* stage k does not grow with k.
EventsOf(p) == SelectSeq(call.records, LAMBDA r : r.parent_index = p)

EntitiesAt(k) == Cardinality({p \in DOMAIN call.results :
                                 \E i \in DOMAIN call.records :
                                     /\ call.records[i].parent_index = p
                                     /\ call.records[i].stage_index = k})

C18OneEventPerStageReached ==
    (call.fn = "stage_events" /\ call.state = "returned") =>
        /\ \A p \in DOMAIN call.results :
              /\ Len(EventsOf(p)) = call.results[p] + 1
              /\ \A i \in DOMAIN EventsOf(p) : EventsOf(p)[i].stage_index = i - 1
        /\ \A k \in 0..(Len(call.stages) - 2) : EntitiesAt(k + 1) <= EntitiesAt(k)

C18Witness ==
    /\ call.fn = "stage_events"
    /\ call.state = "returned"
    /\ Len(call.results) = 2
    /\ call.results[1] = 0
    /\ call.results[2] = 2
    /\ Len(call.records) = 4

(***************************************************************************)
(* Properties of generate_attribution_chains.                              *)
(***************************************************************************)

\* np.isclose(sum, 1.0): 1e-5 of Unit.
Tolerance == 10

ChainOf(c) == SelectSeq(call.touchpoints, LAMBDA t : t.conversion_id = c)

ChainWeights(c) == [i \in DOMAIN ChainOf(c) |-> ChainOf(c)[i].attribution_weight]

Chains == {c \in DOMAIN call.conversion_df : c < call.conversion_idx}

\* C19: under every attribution model and every touch count in
\* [min_touches, max_touches], the weights of one conversion's touchpoints
\* are non-negative and sum to 1.0 within tolerance.
C19WeightsSumToOne ==
    call.fn = "generate_attribution_chains" =>
        \A c \in Chains :
            /\ \A i \in DOMAIN ChainWeights(c) :
                  ChainWeights(c)[i] # NaN /\ ChainWeights(c)[i] >= 0
            /\ Sum(ChainWeights(c)) >= Unit - Tolerance
            /\ Sum(ChainWeights(c)) <= Unit + Tolerance

\* C20: the touchpoints of one conversion have positions 1..n in order, their
\* timestamps do not decrease with the position and the last one is no
\* later than the conversion.
C20OldestFirst ==
    call.fn = "generate_attribution_chains" =>
        \A c \in Chains :
            LET chain == ChainOf(c)
            IN  /\ Len(chain) \in call.min_touches..call.max_touches
                /\ \A p \in DOMAIN chain :
                      /\ chain[p].position = p
                      /\ p < Len(chain) => chain[p].timestamp <= chain[p + 1].timestamp
                      /\ chain[p].timestamp <= call.conversion_df[c]
                /\ chain[Len(chain)].timestamp <= call.conversion_df[c]

C20Witness ==
    /\ call.fn = "generate_attribution_chains"
    /\ call.state = "returned"
    /\ Len(call.conversion_df) = 2
    /\ Len(ChainOf(2)) = MaxTouches
    /\ ChainOf(2)[1].timestamp = call.conversion_df[2] - TimeWindowDays
    /\ ChainOf(2)[MaxTouches].timestamp = call.conversion_df[2]

(***************************************************************************)
(* Further properties of _simulate_entity_transitions and                  *)
(* generate_stage_events.                                                  *)
(***************************************************************************)

\* C29: the records of one entity form one chain: transition_index counts
\* 0, 1, 2, ...; record 0 has no from_state and leads to initial_state; each
\* later record starts where the previous one ended and leads to a key of
\* that state's next_states; transition_time never decreases.
C29OneChain ==
    Simulating =>
        \A i \in DOMAIN call.transitions :
            LET r == call.transitions[i]
            IN  /\ r.transition_index = i - 1
                /\ i = 1 => r.from_state = "None" /\ r.to_state = call.initial_state
                /\ i > 1 =>
                      LET q == call.transitions[i - 1]
                      IN  /\ r.from_state = q.to_state
                          /\ r.to_state \in call.states[r.from_state].next
                          /\ q.transition_time <= r.transition_time

C29Witness ==
    /\ Simulating
    /\ call.state = "returned"
    /\ Len(call.transitions) = 3
    /\ call.transitions[2].to_state # call.initial_state
    /\ call.transitions[3].to_state = call.initial_state
    /\ call.transitions[2].transition_time = call.transitions[1].transition_time
    /\ call.transitions[3].transition_time > call.transitions[2].transition_time

\* C30: with a reference timestamp, an entity's stage-0 event carries the
\* parent's timestamp and the timestamps of its events never decrease as
\* the stage index grows.
C30StageTimestampsAscend ==
    (call.fn = "stage_events" /\ call.timestamp_col) =>
        \A i \in DOMAIN call.records :
            /\ call.records[i].stage_index = 0 => call.records[i].timestamp = 0
            /\ \A j \in DOMAIN call.records :
                  (/\ call.records[i].parent_index = call.records[j].parent_index
                   /\ call.records[i].stage_index < call.records[j].stage_index)
                  => call.records[i].timestamp <= call.records[j].timestamp

(***************************************************************************)
(* Properties of derive_seed.                                              *)
(***************************************************************************)

\* C21: equal scope tuples get equal seeds, and two scope tuples that differ
\* in a component or in length are hashed from different strings.
C21DistinctScopesDistinctStrings ==
    (call.fn = "derive_seed" /\ call.state = "returned") =>
        /\ call.parts1 = call.parts2 => call.seed1 = call.seed2
        /\ call.parts1 # call.parts2 => call.combined1 # call.combined2

(***************************************************************************)
(* Properties of apply_modifiers.                                          *)
(***************************************************************************)

RECURSIVE ComposeAll(_, _, _)
\* mk(...m2(m1(v))...) over every declared modifier; a modifier that has no
\* function of its own (an unknown transform) cannot be applied.
ComposeAll(modifiers, context, v) ==
    IF modifiers = <<>> THEN v
    ELSE ComposeAll(Tail(modifiers), context,
                    IF Head(modifiers) = "unknown_modifier" THEN v
                    ELSE Modify(Head(modifiers), v))

RECURSIVE ComposeApplicable(_, _, _)
\* mk(...m1(v)...) over the declared modifiers that are not skipped.
ComposeApplicable(modifiers, context, v) ==
    IF modifiers = <<>> THEN v
    ELSE ComposeApplicable(Tail(modifiers), context,
                           IF Skips(Head(modifiers), context) THEN v
                           ELSE Modify(Head(modifiers), v))

ModifiersReturned == call.fn = "apply_modifiers" /\ call.state = "returned"

Mapped(mapping, v) ==
    IF \E i \in DOMAIN mapping : mapping[i].old = v
    THEN (CHOOSE item \in Range(mapping) : item.old = v).new
    ELSE v

\* C24: map_values replaces each element v by mapping[v] when v is a key of
\* the mapping and leaves it unchanged otherwise.
C24MapValuesElementwise ==
    (call.fn = "modify_map_values" /\ call.state = "returned") =>
        /\ Len(call.result) = Len(call.values)
        /\ \A i \in DOMAIN call.values :
              call.result[i] = Mapped(call.mapping, call.values[i])

(***************************************************************************)
(* Properties of LookupResolver.lookup.                                    *)
(***************************************************************************)

\* C25: a join-based lookup returns exactly one value per context row, in
\* context-row order: the referenced column of the source row with the
\* context row's key, and null when no source row matches.
C25OneValuePerContextRow ==
    (call.fn = "lookup" /\ call.state = "returned") =>
        /\ Len(call.result) = Len(call.parent_data)
        /\ \A i \in DOMAIN call.parent_data :
              IF \E j \in DOMAIN call.source_df : call.source_df[j].key = call.parent_data[i]
              THEN \E j \in DOMAIN call.source_df :
                      /\ call.source_df[j].key = call.parent_data[i]
                      /\ call.result[i] = call.source_df[j].column
              ELSE call.result[i] = Null

(***************************************************************************)
(* Effects in execute.                                                     *)
(***************************************************************************)

\* C28: whenever a node carrying a column-level or table-level effect
\* modifier is generated, the effect table it names has already been
\* generated and stored.  Stated for the datasets that leave the dag to be
\* inferred.
C28EffectTableStoredFirst ==
    dataset.dag = <<>> =>
        \A n \in hist.begun :
            (EffectTables(dataset, n) \cup TableEffectTables(dataset, n)) \subseteq hist.seen[n]


\* The program has expanded the parent rows into child rows.
Expanded == call.fn = "generate_fact_fanout" /\ call.state \in {"expanded", "modified"}

\* The number of child rows generated for parent row i.
ChildRows(i) == Cardinality({k \in DOMAIN call.parent_indices : call.parent_indices[k] = i})

\* C22: for the same effect table, join keys, window, field, op and default, the
\* value the table-level effect applies to a parent row equals the value the
\* column-level effect modifier applies to a row with the same key and timestamp.
C22TableEffectEqualsColumnEffect ==
    (call.fn = "generate_fact_fanout" /\ call.state = "modified") =>
        \A i \in DOMAIN call.parent_df : call.table_values[i] = call.column_values[i]

\* segment_behavior of the primary parent: the fanout multiplier of a segment,
\* in tenths.
FanoutMultiplier(segment) == IF segment = "vip" THEN 30 ELSE 5

\* C26: when the primary parent declares segment behaviour with fanout
\* multipliers, the number of child rows of each parent row is its sampled fanout
\* multiplied by the multiplier of the row's segment (no table-level effect
\* declared).
C26FanoutScaledBySegment ==
    (Expanded /\ ~call.effect.declared) =>
        \A i \in DOMAIN call.parent_df :
            ChildRows(i) = RoundTenths(call.sampled[i] * FanoutMultiplier(call.parent_df[i].segment))

\* C27: the number of child rows produced for each parent row lies within the
\* fanout's declared [min, max], also when a table-level effect scales the counts.
C27ChildRowsWithinFanoutBounds ==
    Expanded =>
        \A i \in DOMAIN call.parent_df :
            /\ ChildRows(i) >= call.fanout.min
            /\ ChildRows(i) <= call.fanout.max


==============================================================================
